---------------------------- MODULE Spec2Model ----------------------------
(***************************************************************************)
(* Model of the video_processor app of getoutvideo_django: the request    *)
(* handler (views.py), the request/response serializers (serializers.py), *)
(* the processing service (services.py) and its categorized errors        *)
(* (exceptions.py).                                                        *)
(*                                                                         *)
(* One behaviour is one POST to /api/v1/video/process/.  Text is          *)
(* modelled as a sequence of one-character strings, so that lower(),      *)
(* strip(), split(), substring search and the regular expressions are     *)
(* computed, not assumed.  An optional value is a sequence of length at   *)
(* most one: <<>> is None / absent and <<v>> is the value v.               *)
(***************************************************************************)
EXTENDS Integers, Sequences, FiniteSets, TLC

(***************************************************************************)
(* Bounds of the model.                                                    *)
(***************************************************************************)
\* longest "styles" list a request carries
MaxStyles == 1
\* longest list of output files the external processing call returns
MaxFiles == 2

\* the longest list of styles of a request of RequestSpec
MaxStyleNames == 2

(***************************************************************************)
(* Text primitives (Python str operations used by the code).               *)
(***************************************************************************)
None == <<>>

Some(v) == <<v>>

UpperCase ==
    <<"A","B","C","D","E","F","G","H","I","J","K","L","M",
      "N","O","P","Q","R","S","T","U","V","W","X","Y","Z">>

LowerCase ==
    <<"a","b","c","d","e","f","g","h","i","j","k","l","m",
      "n","o","p","q","r","s","t","u","v","w","x","y","z">>

DigitChars == <<"0","1","2","3","4","5","6","7","8","9">>

Range(s) == {s[i] : i \in DOMAIN s}

\* characters str.strip() removes
Whitespace == {" ", "\n", "\t", "\r"}

\* the character U+0000
NulChar == "NUL"

\* [\w-] of the URL patterns
WordChars == Range(UpperCase) \cup Range(LowerCase) \cup Range(DigitChars) \cup {"_", "-"}

\* Op applied to the value of v: v is evaluated once, before Op uses it
Let(v, Op(_)) == CHOOSE r \in {Op(t) : t \in {v}} : TRUE

LowerChar(c) ==
    IF c \in Range(UpperCase)
    THEN LowerCase[CHOOSE i \in DOMAIN UpperCase : UpperCase[i] = c]
    ELSE c

\* str.lower()
Lower(s) == Let(s, LAMBDA t : [i \in DOMAIN t |-> LowerChar(t[i])])

\* str.replace(old, new) for a one-character old
ReplaceChar(s, old, new) ==
    Let(s, LAMBDA t :
        LET F[i \in 0..Len(t)] ==
                IF i = 0 THEN <<>>
                ELSE F[i - 1] \o (IF t[i] = old THEN new ELSE <<t[i]>>)
        IN F[Len(t)])

\* needle in hay
Contains(needle, hay) ==
    \E n \in {needle}, h \in {hay} :
        \E i \in 1..(Len(h) - Len(n) + 1) : SubSeq(h, i, i + Len(n) - 1) = n

StartsWith(s, p) ==
    \E t \in {s}, q \in {p} : Len(t) >= Len(q) /\ SubSeq(t, 1, Len(q)) = q

Drop(s, n) == Let(s, LAMBDA t : SubSeq(t, n + 1, Len(t)))

\* str.lstrip()
RECURSIVE LStrip(_)
LStrip(s) ==
    Let(s, LAMBDA t :
        IF t # <<>> /\ Head(t) \in Whitespace THEN LStrip(Tail(t)) ELSE t)

\* str.rstrip()
RECURSIVE RStrip(_)
RStrip(s) ==
    Let(s, LAMBDA t :
        IF t # <<>> /\ t[Len(t)] \in Whitespace
        THEN RStrip(SubSeq(t, 1, Len(t) - 1)) ELSE t)

\* str.strip()
Strip(s) == RStrip(LStrip(s))

\* str(n) of a natural number
RECURSIVE IntToStr(_)
IntToStr(n) ==
    IF n < 10 THEN <<DigitChars[n + 1]>>
    ELSE IntToStr(n \div 10) \o <<DigitChars[(n % 10) + 1]>>

\* sep.join(parts)
RECURSIVE Join(_, _)
Join(sep, parts) ==
    Let(parts, LAMBDA p :
        IF p = <<>> THEN <<>>
        ELSE IF Len(p) = 1 THEN p[1]
        ELSE p[1] \o sep \o Join(sep, Tail(p)))

\* the index of the first sep in s, or 0
IndexOf(s, sep) ==
    LET at == {i \in DOMAIN s : s[i] = sep}
    IN IF at = {} THEN 0 ELSE CHOOSE i \in at : \A j \in at : i <= j

\* str.split(sep) for a one-character sep
RECURSIVE Split(_, _)
Split(s, sep) ==
    Let(s, LAMBDA t :
        Let(IndexOf(t, sep), LAMBDA k :
            IF k = 0 THEN <<t>>
            ELSE <<SubSeq(t, 1, k - 1)>> \o Split(Drop(t, k), sep)))

\* repr() of a list of str, as an f-string renders it
ReprList(l) ==
    Let(l, LAMBDA v :
        <<"[">> \o Join(<<",", " ">>, [i \in DOMAIN v |-> <<"'">> \o v[i] \o <<"'">>])
            \o <<"]">>)

\* every sequence over S of length at most n
SeqsUpTo(S, n) == UNION {[1..k -> S] : k \in 0..n}

(***************************************************************************)
(* Text constants of the code, and the texts the inputs are drawn from.    *)
(***************************************************************************)
msg_key_missing ==
    <<"O","P","E","N","A","I","_","A","P","I","_","K","E","Y"," ","n","o","t",
      " ","c","o","n","f","i","g","u","r","e","d">>

pfx_init_failed ==
    <<"F","a","i","l","e","d"," ","t","o"," ","i","n","i","t","i","a","l","i",
      "z","e"," ","G","e","t","O","u","t","V","i","d","e","o"," ","A","P","I",
      ":"," ">>

pfx_styles_failed ==
    <<"F","a","i","l","e","d"," ","t","o"," ","g","e","t"," ","a","v","a","i",
      "l","a","b","l","e"," ","s","t","y","l","e","s",":"," ">>

pfx_invalid_styles ==
    <<"I","n","v","a","l","i","d"," ","s","t","y","l","e","s",":"," ">>

mid_available_styles ==
    <<"."," ","A","v","a","i","l","a","b","l","e"," ","s","t","y","l","e","s",
      ":"," ">>

pfx_invalid_video_url ==
    <<"I","n","v","a","l","i","d"," ","o","r"," ","i","n","a","c","c","e","s",
      "s","i","b","l","e"," ","v","i","d","e","o"," ","U","R","L",":"," ">>

msg_timed_out ==
    <<"V","i","d","e","o"," ","p","r","o","c","e","s","s","i","n","g"," ","t",
      "i","m","e","d"," ","o","u","t">>

msg_auth_failed ==
    <<"A","P","I"," ","a","u","t","h","e","n","t","i","c","a","t","i","o","n",
      " ","f","a","i","l","e","d">>

pfx_external_error ==
    <<"E","x","t","e","r","n","a","l"," ","s","e","r","v","i","c","e"," ","e",
      "r","r","o","r",":"," ">>

msg_unexpected ==
    <<"A","n"," ","u","n","e","x","p","e","c","t","e","d"," ","e","r","r","o",
      "r"," ","o","c","c","u","r","r","e","d"," ","d","u","r","i","n","g"," ",
      "v","i","d","e","o"," ","p","r","o","c","e","s","s","i","n","g">>

msg_formatting ==
    <<"R","e","s","p","o","n","s","e"," ","f","o","r","m","a","t","t","i","n",
      "g"," ","e","r","r","o","r">>

msg_invalid_request ==
    <<"I","n","v","a","l","i","d"," ","r","e","q","u","e","s","t"," ","d","a",
      "t","a">>

unknown_title == <<"U","n","k","n","o","w","n"," ","T","i","t","l","e">>

English == <<"E","n","g","l","i","s","h">>

s_error == <<"e","r","r","o","r">>

s_success == <<"s","u","c","c","e","s","s">>

label_balanced ==
    <<"B","a","l","a","n","c","e","d"," ","a","n","d"," ","D","e","t","a","i",
      "l","e","d">>

label_summary == <<"S","u","m","m","a","r","y">>

label_educational == <<"E","d","u","c","a","t","i","o","n","a","l">>

label_narrative ==
    <<"N","a","r","r","a","t","i","v","e"," ","R","e","w","r","i","t","i","n",
      "g">>

label_qa == <<"Q","&","A"," ","G","e","n","e","r","a","t","i","o","n">>

key_balanced == <<"b","a","l","a","n","c","e","d">>

key_summary == <<"s","u","m","m","a","r","y">>

key_educational == <<"e","d","u","c","a","t","i","o","n","a","l">>

key_narrative == <<"n","a","r","r","a","t","i","v","e">>

key_qa_generation == <<"q","a","_","g","e","n","e","r","a","t","i","o","n">>

style_Summary == <<"S","u","m","m","a","r","y">>

style_Educational == <<"E","d","u","c","a","t","i","o","n","a","l">>

style_Balanced == <<"B","a","l","a","n","c","e","d">>

style_QA_Generation == <<"Q","A"," ","G","e","n","e","r","a","t","i","o","n">>

style_Narrative == <<"N","a","r","r","a","t","i","v","e">>

re_http == <<"h","t","t","p">>

re_scheme_sep == <<":","/","/">>

re_www == <<"w","w","w",".">>

re_watch_v ==
    <<"y","o","u","t","u","b","e",".","c","o","m","/","w","a","t","c","h","?",
      "v","=">>

re_watch_q ==
    <<"y","o","u","t","u","b","e",".","c","o","m","/","w","a","t","c","h",
      "?">>

re_v_eq == <<"v","=">>

re_youtu_be == <<"y","o","u","t","u",".","b","e","/">>

re_embed ==
    <<"y","o","u","t","u","b","e",".","c","o","m","/","e","m","b","e","d",
      "/">>

re_v_path == <<"y","o","u","t","u","b","e",".","c","o","m","/","v","/">>

url_short ==
    <<"h","t","t","p","s",":","/","/","y","o","u","t","u",".","b","e","/","a",
      "b","c","1","2","3">>

url_short_padded ==
    <<"h","t","t","p","s",":","/","/","y","o","u","t","u",".","b","e","/","a",
      "b","c","1","2","3"," ">>

url_vimeo ==
    <<"h","t","t","p","s",":","/","/","v","i","m","e","o",".","c","o","m","/",
      "1">>

url_not_a_url == <<"n","o","t","-","a","-","u","r","l">>

fault_invalid_url ==
    <<"I","n","v","a","l","i","d"," ","U","R","L"," ","p","r","o","v","i","d",
      "e","d">>

fault_timeout ==
    <<"R","e","q","u","e","s","t"," ","t","i","m","e","o","u","t">>

fault_bad_api_key ==
    <<"4","0","1"," ","U","n","a","u","t","h","o","r","i","z","e","d",":"," ",
      "b","a","d"," ","a","p","i"," ","k","e","y">>

fault_upstream == <<"U","p","s","t","r","e","a","m"," ","5","0","0">>

fault_unauthorized ==
    <<"4","0","1"," ","U","n","a","u","t","h","o","r","i","z","e","d">>

fault_timeout_not_found ==
    <<"T","i","m","e","o","u","t",":"," ","v","i","d","e","o"," ","n","o","t",
      " ","f","o","u","n","d">>

fault_auth_timeout ==
    <<"a","u","t","h","e","n","t","i","c","a","t","i","o","n"," ","t","i","m",
      "e","o","u","t">>

fault_empty == <<>>

fault_decode ==
    <<"'","u","t","f","-","8","'"," ","c","o","d","e","c"," ","c","a","n","'",
      "t"," ","d","e","c","o","d","e"," ","b","y","t","e"," ","0","x","f","f",
      " ","i","n"," ","p","o","s","i","t","i","o","n"," ","0",":"," ","i","n",
      "v","a","l","i","d"," ","s","t","a","r","t"," ","b","y","t","e">>

style_InvalidStyle == <<"I","n","v","a","l","i","d","S","t","y","l","e">>

stem_TestVideo_Summary ==
    <<"T","e","s","t","V","i","d","e","o","_","S","u","m","m","a","r","y">>

stem_Foo_Educational ==
    <<"F","o","o","_","E","d","u","c","a","t","i","o","n","a","l">>

stem_NoUnderscore == <<"N","o","U","n","d","e","r","s","c","o","r","e">>

stem_Foo_Custom ==
    <<"F","o","o","_","C","u","s","t","o","m"," ","S","t","y","l","e">>

stem_blank_title == <<"_","S","u","m","m","a","r","y">>

content_hello == <<"h","e","l","l","o">>

content_hello_nl == <<"h","e","l","l","o","\n">>

content_B == <<"B">>

content_nul == <<"a","NUL","b">>

lang_French == <<"F","r","e","n","c","h">>

exc_no_setting ==
    <<"'","S","e","t","t","i","n","g","s","'"," ","o","b","j","e","c","t"," ",
      "h","a","s"," ","n","o"," ","a","t","t","r","i","b","u","t","e"," ","'",
      "G","E","T","O","U","T","V","I","D","E","O","_","C","O","N","F","I","G",
      "'">>

exc_none_setting ==
    <<"'","N","o","n","e","T","y","p","e","'"," ","o","b","j","e","c","t"," ",
      "h","a","s"," ","n","o"," ","a","t","t","r","i","b","u","t","e"," ","'",
      "g","e","t","'">>

kw_invalid_url == <<"i","n","v","a","l","i","d"," ","u","r","l">>

kw_not_found == <<"n","o","t"," ","f","o","u","n","d">>

kw_unavailable == <<"u","n","a","v","a","i","l","a","b","l","e">>

kw_timeout == <<"t","i","m","e","o","u","t">>

kw_api_key == <<"a","p","i"," ","k","e","y">>

kw_authentication ==
    <<"a","u","t","h","e","n","t","i","c","a","t","i","o","n">>

fault_nul == <<"b","a","d","NUL"," ">>

title_TestVideo == <<"T","e","s","t","V","i","d","e","o">>

lit_invalid_style ==
    <<"I","n","v","a","l","i","d"," ","s","t","y","l","e"," ","'">>

lit_valid_styles_are ==
    <<"'","."," ","V","a","l","i","d"," ","s","t","y","l","e","s"," ","a","r",
      "e",":"," ">>

sep_comma == <<","," ">>

style_NonExistentStyle ==
    <<"N","o","n","E","x","i","s","t","e","n","t","S","t","y","l","e">>

style_Summary_padded == <<" ","S","u","m","m","a","r","y">>

style_blank == <<>>

url_watch_www ==
    <<"h","t","t","p","s",":","/","/","w","w","w",".","y","o","u","t","u","b",
      "e",".","c","o","m","/","w","a","t","c","h","?","v","=","t","e","s","t",
      "1","2","3">>

url_watch ==
    <<"h","t","t","p","s",":","/","/","y","o","u","t","u","b","e",".","c","o",
      "m","/","w","a","t","c","h","?","v","=","t","e","s","t","1","2","3">>

url_watch_http ==
    <<"h","t","t","p",":","/","/","y","o","u","t","u","b","e",".","c","o","m",
      "/","w","a","t","c","h","?","v","=","a","-","b","_","c">>

url_watch_query ==
    <<"h","t","t","p","s",":","/","/","w","w","w",".","y","o","u","t","u","b",
      "e",".","c","o","m","/","w","a","t","c","h","?","l","i","s","t","=","P",
      "L","1","&","v","=","t","e","s","t","1","2","3">>

url_embed ==
    <<"h","t","t","p","s",":","/","/","w","w","w",".","y","o","u","t","u","b",
      "e",".","c","o","m","/","e","m","b","e","d","/","t","e","s","t","1","2",
      "3">>

url_v ==
    <<"h","t","t","p","s",":","/","/","y","o","u","t","u","b","e",".","c","o",
      "m","/","v","/","t","e","s","t","1","2","3">>

url_trailing ==
    <<"h","t","t","p","s",":","/","/","y","o","u","t","u",".","b","e","/","a",
      "b","c","1","2","3","/","m","o","r","e","?","x","=","1","#","t">>

url_no_id ==
    <<"h","t","t","p","s",":","/","/","y","o","u","t","u",".","b","e","/">>

url_watch_no_v ==
    <<"h","t","t","p","s",":","/","/","w","w","w",".","y","o","u","t","u","b",
      "e",".","c","o","m","/","w","a","t","c","h","?","l","i","s","t","=","P",
      "L","1">>

url_watch_empty_v ==
    <<"h","t","t","p","s",":","/","/","y","o","u","t","u","b","e",".","c","o",
      "m","/","w","a","t","c","h","?","v","=">>

url_www_short ==
    <<"h","t","t","p","s",":","/","/","w","w","w",".","y","o","u","t","u",".",
      "b","e","/","a","b","c","1","2","3">>

url_mobile ==
    <<"h","t","t","p","s",":","/","/","m",".","y","o","u","t","u","b","e",".",
      "c","o","m","/","w","a","t","c","h","?","v","=","t","e","s","t","1","2",
      "3">>

url_channel ==
    <<"h","t","t","p","s",":","/","/","w","w","w",".","y","o","u","t","u","b",
      "e",".","c","o","m","/","c","h","a","n","n","e","l","/","a","b","c">>

url_inside ==
    <<"h","t","t","p","s",":","/","/","e","x","a","m","p","l","e",".","c","o",
      "m","/","?","u","=","h","t","t","p","s",":","/","/","y","o","u","t","u",
      ".","b","e","/","a","b","c","1","2","3">>

url_short_leading ==
    <<" ","h","t","t","p","s",":","/","/","y","o","u","t","u",".","b","e","/",
      "a","b","c","1","2","3">>

url_space_inside ==
    <<"h","t","t","p","s",":","/","/","y","o","u","t","u",".","b","e","/","a",
      "b","c"," ","1","2","3">>

content_A == <<"A">>

stem_Foo_Summary == <<"F","o","o","_","S","u","m","m","a","r","y">>

stem_Foo_Balanced ==
    <<"F","o","o","_","B","a","l","a","n","c","e","d"," ","a","n","d"," ","D",
      "e","t","a","i","l","e","d">>

stem_Foo_Narrative ==
    <<"F","o","o","_","N","a","r","r","a","t","i","v","e"," ","R","e","w","r",
      "i","t","i","n","g">>

stem_Foo_QA ==
    <<"F","o","o","_","Q","&","A"," ","G","e","n","e","r","a","t","i","o",
      "n">>

stem_Foo_Pros ==
    <<"F","o","o","_","P","r","o","s"," ","&"," ","C","o","n","s">>

stem_Foo_EduSummary ==
    <<"F","o","o","_","E","d","u","c","a","t","i","o","n","a","l"," ","S","u",
      "m","m","a","r","y">>

stem_Foo_EXEC ==
    <<"F","o","o","_","E","X","E","C","U","T","I","V","E"," ","S","U","M","M",
      "A","R","Y">>

stem_My_Video_Summary ==
    <<"M","y","_","V","i","d","e","o","_","S","u","m","m","a","r","y">>

fault_authentication ==
    <<"A","u","t","h","e","n","t","i","c","a","t","i","o","n"," ","f","a","i",
      "l","e","d">>

(***************************************************************************)
(* exceptions.py: the categorized errors.                                  *)
(***************************************************************************)
HTTP_200_OK == 200

HTTP_400_BAD_REQUEST == 400

HTTP_422_UNPROCESSABLE_ENTITY == 422

HTTP_500_INTERNAL_SERVER_ERROR == 500

HTTP_502_BAD_GATEWAY == 502

VideoValidationError(message) ==
    [kind |-> "VideoValidationError", message |-> message,
     status_code |-> HTTP_400_BAD_REQUEST]

ExternalServiceError(message) ==
    [kind |-> "ExternalServiceError", message |-> message,
     status_code |-> HTTP_502_BAD_GATEWAY]

ProcessingTimeoutError(message) ==
    [kind |-> "ProcessingTimeoutError", message |-> message,
     status_code |-> HTTP_422_UNPROCESSABLE_ENTITY]

ConfigurationError(message) ==
    [kind |-> "ConfigurationError", message |-> message,
     status_code |-> HTTP_500_INTERNAL_SERVER_ERROR]

\* an exception that is no VideoProcessorError: str(e) is its message
PlainException(kind, message) == [kind |-> kind, message |-> message]

\* isinstance(e, VideoProcessorError)
CategorizedKinds ==
    {"VideoValidationError", "ExternalServiceError",
     "ProcessingTimeoutError", "ConfigurationError"}

IsCategorized(e) == e.kind \in CategorizedKinds

(***************************************************************************)
(* serializers.py: fields.                                                 *)
(***************************************************************************)
\* CharField.run_validation: is the text accepted (blank check, then the
\* validator that prohibits the null character)
CharFieldValid(data, allow_blank) ==
    /\ allow_blank \/ Strip(data) # <<>>
    /\ NulChar \notin Range(data)

\* CharField.to_internal_value: the validated text (trim_whitespace is on)
CharFieldValue(data) == Strip(data)

\* max_length of the request's CharFields
FIELD_MAX_LENGTH == 50

\* CharField(max_length=50)
ShortCharFieldValid(data) ==
    CharFieldValid(data, FALSE) /\ Len(CharFieldValue(data)) <= FIELD_MAX_LENGTH

\* URLField: the URL validator on the validated text
URLFieldValid(data) ==
    /\ CharFieldValid(data, FALSE)
    /\ \E value \in {CharFieldValue(data)} :
       \E rest \in {IF StartsWith(value, re_http \o <<"s">> \o re_scheme_sep)
                    THEN Drop(value, 8)
                    ELSE IF StartsWith(value, re_http \o re_scheme_sep)
                    THEN Drop(value, 7) ELSE <<>>} :
       \E stops \in {{i \in DOMAIN rest : rest[i] \in {"/", "?", "#"}}} :
       \E hostLen \in {IF stops = {} THEN Len(rest)
                        ELSE (CHOOSE i \in stops : \A j \in stops : i <= j) - 1} :
       \E labels \in {Split(SubSeq(rest, 1, hostLen), ".")} :
           /\ rest # <<>>
           /\ Len(labels) >= 2
           /\ \A k \in DOMAIN labels :
                  labels[k] # <<>> /\ Range(labels[k]) \subseteq (WordChars \ {"_"})
           /\ \A i \in DOMAIN rest : rest[i] \notin Whitespace

\* ^https?://
MatchScheme(s) ==
    IF StartsWith(s, re_http \o <<"s">> \o re_scheme_sep) THEN Some(Drop(s, 8))
    ELSE IF StartsWith(s, re_http \o re_scheme_sep) THEN Some(Drop(s, 7))
    ELSE None

\* (www\.)? followed by the literal lit, then [\w-]+
MatchAfterHost(rest, optional_www, lit) ==
    LET tails == {rest} \cup
                 (IF optional_www /\ StartsWith(rest, re_www)
                  THEN {Drop(rest, Len(re_www))} ELSE {})
    IN \E t \in tails :
           /\ StartsWith(t, lit)
           /\ Len(t) > Len(lit)
           /\ t[Len(lit) + 1] \in WordChars

\* ^https?://(www\.)?youtube\.com/watch\?.*v=[\w-]+
MatchWatchAnyQuery(rest) ==
    LET tails == {rest} \cup
                 (IF StartsWith(rest, re_www) THEN {Drop(rest, Len(re_www))} ELSE {})
    IN \E t \in tails :
           /\ StartsWith(t, re_watch_q)
           /\ \E i \in (Len(re_watch_q) + 1)..(Len(t) - 2) :
                  /\ SubSeq(t, i, i + 1) = re_v_eq
                  /\ t[i + 2] \in WordChars
                  /\ \A j \in (Len(re_watch_q) + 1)..(i - 1) : t[j] # "\n"

\* a faulty variant of MatchesYoutubePattern: the patterns are searched for
\* anywhere in the value, not matched at its start
MatchesYoutubePattern_Search(value) ==
    \E k \in 0..Len(value) :
        LET m == MatchScheme(Drop(value, k))
        IN /\ m # None
           /\ \/ MatchAfterHost(m[1], TRUE, re_watch_v)
              \/ MatchWatchAnyQuery(m[1])
              \/ MatchAfterHost(m[1], FALSE, re_youtu_be)
              \/ MatchAfterHost(m[1], TRUE, re_embed)
              \/ MatchAfterHost(m[1], TRUE, re_v_path)

\* any(re.match(pattern, value) for pattern in youtube_patterns)
MatchesYoutubePattern(value) ==
    LET m == MatchScheme(value)
    IN /\ m # None
       /\ \/ MatchAfterHost(m[1], TRUE, re_watch_v)
          \/ MatchWatchAnyQuery(m[1])
          \/ MatchAfterHost(m[1], FALSE, re_youtu_be)
          \/ MatchAfterHost(m[1], TRUE, re_embed)
          \/ MatchAfterHost(m[1], TRUE, re_v_path)

\* valid_styles of validate_styles
valid_styles ==
    <<style_Summary, style_Educational, style_Balanced,
      style_QA_Generation, style_Narrative>>

\* validate_styles: the first style outside valid_styles raises
StylesStaticallyValid(value) ==
    \A i \in DOMAIN value : value[i] \in Range(valid_styles)

\* error_msg of validate_styles for the style that raises
StyleErrorMessage(style) ==
    lit_invalid_style \o style \o lit_valid_styles_are
        \o Join(sep_comma, valid_styles)

\* a faulty variant of StaticStylesError: the last invalid style is named
StaticStylesError_LastInvalid(value) ==
    IF StylesStaticallyValid(value) THEN None
    ELSE LET last == CHOOSE i \in DOMAIN value :
                         /\ value[i] \notin Range(valid_styles)
                         /\ \A j \in (i + 1)..Len(value) : value[j] \in Range(valid_styles)
         IN Some(StyleErrorMessage(value[last]))

\* validate_styles: the message of the ValidationError it raises, or None;
\* the loop stops at the first style outside valid_styles
StaticStylesError(value) ==
    IF StylesStaticallyValid(value) THEN None
    ELSE LET first == CHOOSE i \in DOMAIN value :
                          /\ value[i] \notin Range(valid_styles)
                          /\ \A j \in 1..(i - 1) : value[j] \in Range(valid_styles)
         IN Some(StyleErrorMessage(value[first]))

(***************************************************************************)
(* serializers.py: VideoProcessRequestSerializer.                          *)
(***************************************************************************)
\* the error of field video_url, or None
VideoUrlError(data) ==
    IF data.video_url = None THEN Some("required")
    ELSE IF Strip(data.video_url[1]) = <<>> THEN Some("blank")
    ELSE IF ~URLFieldValid(data.video_url[1]) THEN Some("invalid")
    ELSE IF ~MatchesYoutubePattern(CharFieldValue(data.video_url[1]))
    THEN Some("invalid_youtube_url")
    ELSE None

\* the error of field styles, or None: an error of the child field of an
\* entry (its text is the framework's), or the error validate_styles raises
\* on the validated entries
StylesError(data) ==
    IF data.styles = None THEN None
    ELSE LET given == data.styles[1]
             value == [i \in DOMAIN given |-> CharFieldValue(given[i])]
         IN IF \E i \in DOMAIN given : ~ShortCharFieldValid(given[i])
            THEN Some([code |-> "invalid_child", message |-> <<>>])
            ELSE IF StaticStylesError(value) # None
            THEN Some([code |-> "invalid", message |-> StaticStylesError(value)[1]])
            ELSE None

\* the error of field output_language, or None
OutputLanguageError(data) ==
    IF data.output_language = None THEN None
    ELSE IF ~ShortCharFieldValid(data.output_language[1]) THEN Some("invalid")
    ELSE None

\* request_serializer.errors: the failing fields and their errors
RequestErrors(data) ==
    LET errs == [video_url |-> VideoUrlError(data),
                 styles |-> StylesError(data),
                 output_language |-> OutputLanguageError(data)]
        failing == {f \in DOMAIN errs : errs[f] # None}
    IN [f \in failing |-> errs[f][1]]

\* a faulty variant of RequestIsValid: an error of the styles field is ignored
RequestIsValid_StylesUnchecked(data) == DOMAIN RequestErrors(data) \subseteq {"styles"}

\* request_serializer.is_valid()
RequestIsValid(data) == DOMAIN RequestErrors(data) = {}

\* request_serializer.validated_data: styles stays absent when not given,
\* output_language takes its default
ValidatedData(data) ==
    [video_url |-> CharFieldValue(data.video_url[1]),
     styles |-> IF data.styles = None THEN None
                ELSE Some([i \in DOMAIN data.styles[1] |->
                               CharFieldValue(data.styles[1][i])]),
     output_language |-> IF data.output_language = None THEN English
                         ELSE CharFieldValue(data.output_language[1])]

(***************************************************************************)
(* services.py: the Output Normalizer and the Error Classifier.            *)
(***************************************************************************)
\* style_mapping, in the order of the dict
style_mapping ==
    << <<label_balanced, key_balanced>>,
       <<label_summary, key_summary>>,
       <<label_educational, key_educational>>,
       <<label_narrative, key_narrative>>,
       <<label_qa, key_qa_generation>> >>

\* style.lower().replace(" ", "_")
NormalizeLabel(style) == ReplaceChar(Lower(style), " ", <<"_">>)

\* a faulty variant of ResultKey: the last matching entry of the table wins
ResultKey_LastMatch(style) ==
    Let(NormalizeLabel(style), LAMBDA normalized :
        LET hits == {k \in DOMAIN style_mapping :
                        Contains(NormalizeLabel(style_mapping[k][1]), normalized)}
        IN IF hits # {}
           THEN style_mapping[CHOOSE k \in hits : \A j \in hits : k >= j][2]
           ELSE ReplaceChar(normalized, "&", <<"a", "n", "d">>))

\* a faulty variant of ResultKey: the fallback key keeps the character &
ResultKey_AmpersandKept(style) ==
    Let(NormalizeLabel(style), LAMBDA normalized :
        LET hits == {k \in DOMAIN style_mapping :
                        Contains(NormalizeLabel(style_mapping[k][1]), normalized)}
        IN IF hits # {}
           THEN style_mapping[CHOOSE k \in hits : \A j \in hits : k <= j][2]
           ELSE normalized)

\* the loop over style_mapping.items(): the first matching entry's key, or
\* the fallback key
ResultKey(style) ==
    Let(NormalizeLabel(style), LAMBDA normalized :
        LET hits == {k \in DOMAIN style_mapping :
                        Contains(NormalizeLabel(style_mapping[k][1]), normalized)}
        IN IF hits # {}
           THEN style_mapping[CHOOSE k \in hits : \A j \in hits : k <= j][2]
           ELSE ReplaceChar(normalized, "&", <<"a", "n", "d">>))

\* a faulty variant of DictSet: a key that is already set keeps its content
DictSet_KeepFirst(d, key, content) ==
    Let(key, LAMBDA new :
        [k \in DOMAIN d \cup {new} |-> IF k \in DOMAIN d THEN d[k] ELSE content])

\* results[key] = content
DictSet(d, key, content) ==
    Let(key, LAMBDA new :
        [k \in DOMAIN d \cup {new} |-> IF k = new THEN content ELSE d[k]])

\* a file whose bytes are not UTF-8: read_text raises UnicodeDecodeError
UnicodeDecodeError == PlainException("UnicodeDecodeError", fault_decode)

\* a faulty variant of ParseOneFile: the title is the whole stem, not parts[0]
ParseOneFile_TitleIsStem(acc, file) ==
    IF acc.error # None \/ ~file.exists THEN acc
    ELSE IF ~file.decodable
    THEN [acc EXCEPT !.error = Some(UnicodeDecodeError)]
    ELSE IF "_" \notin Range(file.stem)
    THEN [acc EXCEPT !.reads = @ + 1]
    ELSE Let(Split(file.stem, "_"), LAMBDA parts :
             [acc EXCEPT !.reads = @ + 1,
                         !.video_title = file.stem,
                         !.results = DictSet(@, ResultKey(Join(<<"_">>, Tail(parts))),
                                             file.content)])

\* a faulty variant of ParseOneFile: a file without separator gives the
\* title
ParseOneFile_StemAsTitle(acc, file) ==
    IF acc.error # None \/ ~file.exists THEN acc
    ELSE IF ~file.decodable
    THEN [acc EXCEPT !.error = Some(UnicodeDecodeError)]
    ELSE IF "_" \notin Range(file.stem)
    THEN [acc EXCEPT !.reads = @ + 1, !.video_title = file.stem]
    ELSE Let(Split(file.stem, "_"), LAMBDA parts :
             [acc EXCEPT !.reads = @ + 1,
                         !.video_title = parts[1],
                         !.results = DictSet(@, ResultKey(Join(<<"_">>, Tail(parts))),
                                             file.content)])

\* one iteration of the loop of _parse_output_files on state acc
ParseOneFile(acc, file) ==
    IF acc.error # None \/ ~file.exists THEN acc
    ELSE IF ~file.decodable
    THEN [acc EXCEPT !.error = Some(UnicodeDecodeError)]
    ELSE IF "_" \notin Range(file.stem)
    THEN [acc EXCEPT !.reads = @ + 1]
    ELSE Let(Split(file.stem, "_"), LAMBDA parts :
             [acc EXCEPT !.reads = @ + 1,
                         !.video_title = parts[1],
                         !.results = DictSet(@, ResultKey(Join(<<"_">>, Tail(parts))),
                                             file.content)])

\* _parse_output_files: (results, video_title), or the exception of a read
ParseOutputFiles(files) ==
    LET F[i \in 0..Len(files)] ==
            IF i = 0
            THEN [results |-> <<>>, video_title |-> unknown_title,
                  error |-> None, reads |-> 0]
            ELSE Let(F[i - 1], LAMBDA acc : ParseOneFile(acc, files[i]))
    IN F[Len(files)]

\* a faulty variant of HandleProcessingError: "timeout" is looked for first
HandleProcessingError_TimeoutFirst(e, video_url) ==
    LET error_msg == Lower(e.message)
    IN IF Contains(kw_timeout, error_msg)
       THEN ProcessingTimeoutError(msg_timed_out)
       ELSE IF \/ Contains(kw_invalid_url, error_msg)
               \/ Contains(kw_not_found, error_msg)
               \/ Contains(kw_unavailable, error_msg)
       THEN VideoValidationError(pfx_invalid_video_url \o video_url)
       ELSE IF Contains(kw_api_key, error_msg) \/ Contains(kw_authentication, error_msg)
       THEN ConfigurationError(msg_auth_failed)
       ELSE ExternalServiceError(pfx_external_error \o e.message)

\* a faulty variant of HandleProcessingError: the Configuration error carries
\* the text of the fault
HandleProcessingError_ConfigurationWraps(e, video_url) ==
    LET error_msg == Lower(e.message)
    IN IF \/ Contains(kw_invalid_url, error_msg)
          \/ Contains(kw_not_found, error_msg)
          \/ Contains(kw_unavailable, error_msg)
       THEN VideoValidationError(pfx_invalid_video_url \o video_url)
       ELSE IF Contains(kw_timeout, error_msg)
       THEN ProcessingTimeoutError(msg_timed_out)
       ELSE IF Contains(kw_api_key, error_msg) \/ Contains(kw_authentication, error_msg)
       THEN ConfigurationError(msg_auth_failed \o e.message)
       ELSE ExternalServiceError(pfx_external_error \o e.message)

\* _handle_processing_error: the categorized error it raises
HandleProcessingError(e, video_url) ==
    LET error_msg == Lower(e.message)
    IN IF \/ Contains(kw_invalid_url, error_msg)
          \/ Contains(kw_not_found, error_msg)
          \/ Contains(kw_unavailable, error_msg)
       THEN VideoValidationError(pfx_invalid_video_url \o video_url)
       ELSE IF Contains(kw_timeout, error_msg)
       THEN ProcessingTimeoutError(msg_timed_out)
       ELSE IF Contains(kw_api_key, error_msg) \/ Contains(kw_authentication, error_msg)
       THEN ConfigurationError(msg_auth_failed)
       ELSE ExternalServiceError(pfx_external_error \o e.message)

\* a faulty variant of ProcessVideoExcept: only VideoValidationError is
\* re-raised as it is, the other categorized errors fall to the last clause
ProcessVideoExcept_OnlyValidationPasses(e, video_url) ==
    IF e.kind = "VideoValidationError"
    THEN [raised |-> e, classified |-> FALSE]
    ELSE [raised |-> HandleProcessingError(e, video_url), classified |-> TRUE]

\* a faulty variant of ProcessVideoExcept: there is no last except clause,
\* every exception leaves the call as it is
ProcessVideoExcept_Unhandled(e, video_url) == [raised |-> e, classified |-> FALSE]

\* the except clauses of process_video for exception e: what leaves the call
\* (raised), and whether e went through _handle_processing_error (classified)
ProcessVideoExcept(e, video_url) ==
    IF e.kind = "VideoValidationError"
    THEN [raised |-> e, classified |-> FALSE]
    ELSE IF e.kind \in {"ExternalServiceError", "ProcessingTimeoutError",
                        "ConfigurationError"}
    THEN [raised |-> e, classified |-> FALSE]
    ELSE [raised |-> HandleProcessingError(e, video_url), classified |-> TRUE]

\* a faulty variant of InvalidStyles: no style is ever found invalid
InvalidStyles_NoneFound(styles, available_styles) == <<>>

\* a faulty variant of InvalidStyles: the styles are checked against the
\* static list of the serializer, not against the catalog
InvalidStyles_StaticList(styles, available_styles) ==
    SelectSeq(styles, LAMBDA s : s \notin Range(valid_styles))

\* invalid_styles of _validate_styles
InvalidStyles(styles, available_styles) ==
    SelectSeq(styles, LAMBDA s : s \notin Range(available_styles))

\* the message of _validate_styles
InvalidStylesMessage(styles, available_styles) ==
    pfx_invalid_styles \o ReprList(InvalidStyles(styles, available_styles))
        \o mid_available_styles \o ReprList(available_styles)

(***************************************************************************)
(* serializers.py: the response serializers; views.py: the responses.      *)
(***************************************************************************)
\* the declared fields of VideoResultsSerializer
ResultFields ==
    {key_summary, key_educational, key_balanced, key_qa_generation, key_narrative}

\* VideoProcessResponseSerializer(data=...).is_valid() for data = result_data
ResponseIsValid(result_data) ==
    /\ URLFieldValid(result_data.video_url)
    /\ CharFieldValid(result_data.video_title, FALSE)
    /\ \A k \in DOMAIN result_data.results \cap ResultFields :
           CharFieldValid(result_data.results[k], TRUE)
    /\ CharFieldValid(result_data.metadata.language, FALSE)
    /\ \A i \in DOMAIN result_data.metadata.styles_processed :
           CharFieldValid(result_data.metadata.styles_processed[i], FALSE)

\* a faulty variant of ResponseValidatedData: every key of results is kept
ResponseValidatedData_AllKeys(result_data) ==
    [status |-> CharFieldValue(s_success),
     data |->
        [video_url |-> CharFieldValue(result_data.video_url),
         video_title |-> CharFieldValue(result_data.video_title),
         processed_at |-> result_data.processed_at,
         results |-> [k \in DOMAIN result_data.results |->
                          CharFieldValue(result_data.results[k])],
         metadata |->
            [processing_time |-> result_data.metadata.processing_time,
             language |-> CharFieldValue(result_data.metadata.language),
             styles_processed |->
                 [i \in DOMAIN result_data.metadata.styles_processed |->
                      CharFieldValue(result_data.metadata.styles_processed[i])]]]]

\* response_serializer.validated_data: declared fields only, text trimmed
ResponseValidatedData(result_data) ==
    [status |-> CharFieldValue(s_success),
     data |->
        [video_url |-> CharFieldValue(result_data.video_url),
         video_title |-> CharFieldValue(result_data.video_title),
         processed_at |-> result_data.processed_at,
         results |-> [k \in DOMAIN result_data.results \cap ResultFields |->
                          CharFieldValue(result_data.results[k])],
         metadata |->
            [processing_time |-> result_data.metadata.processing_time,
             language |-> CharFieldValue(result_data.metadata.language),
             styles_processed |->
                 [i \in DOMAIN result_data.metadata.styles_processed |->
                      CharFieldValue(result_data.metadata.styles_processed[i])]]]]

\* a faulty variant of ErrorResponse: the code is that of an internal error
\* whatever the status
ErrorResponse_CodeFixed(message, status_code) ==
    IF CharFieldValid(message, FALSE)
    THEN [status_code |-> status_code,
          data |-> [status |-> CharFieldValue(s_error),
                    error |-> CharFieldValue(message),
                    code |-> CharFieldValue(IntToStr(HTTP_500_INTERNAL_SERVER_ERROR))]]
    ELSE [status_code |-> status_code,
          data |-> [status |-> s_error, error |-> message]]

\* _error_response
ErrorResponse(message, status_code) ==
    IF CharFieldValid(message, FALSE)
    THEN [status_code |-> status_code,
          data |-> [status |-> CharFieldValue(s_error),
                    error |-> CharFieldValue(message),
                    code |-> CharFieldValue(IntToStr(status_code))]]
    ELSE [status_code |-> status_code,
          data |-> [status |-> s_error, error |-> message]]

\* a faulty variant of CreateSuccessResponse: the data is sent unvalidated
CreateSuccessResponse_Unvalidated(result_data) ==
    [status_code |-> HTTP_200_OK, data |-> [status |-> s_success, data |-> result_data]]

\* _create_success_response
CreateSuccessResponse(result_data) ==
    IF ResponseIsValid(result_data)
    THEN [status_code |-> HTTP_200_OK, data |-> ResponseValidatedData(result_data)]
    ELSE ErrorResponse(msg_formatting, HTTP_500_INTERNAL_SERVER_ERROR)

\* a faulty variant of ViewExcept: Configuration and ExternalService errors
\* are answered like an unexpected exception
ViewExcept_ServiceErrorsGeneric(e) ==
    IF e.kind \in {"VideoValidationError", "ProcessingTimeoutError"}
    THEN ErrorResponse(e.message, e.status_code)
    ELSE ErrorResponse(msg_unexpected, HTTP_500_INTERNAL_SERVER_ERROR)

\* a faulty variant of ViewExcept: the message of an unexpected exception is
\* sent to the caller
ViewExcept_LeaksMessage(e) ==
    IF IsCategorized(e)
    THEN ErrorResponse(e.message, e.status_code)
    ELSE ErrorResponse(e.message, HTTP_500_INTERNAL_SERVER_ERROR)

\* the except clauses of _process_video: the response for exception e
ViewExcept(e) ==
    IF e.kind \in {"VideoValidationError", "ProcessingTimeoutError"}
    THEN ErrorResponse(e.message, e.status_code)
    ELSE IF e.kind \in {"ConfigurationError", "ExternalServiceError"}
    THEN ErrorResponse(e.message, e.status_code)
    ELSE ErrorResponse(msg_unexpected, HTTP_500_INTERNAL_SERVER_ERROR)

\* the 400 response of post for an invalid payload
InvalidRequestResponse(data) ==
    [status_code |-> HTTP_400_BAD_REQUEST,
     data |-> [status |-> s_error, error |-> msg_invalid_request,
               details |-> RequestErrors(data)]]

\* permission_classes of VideoProcessAPIView
permission_classes == {"AllowAny"}

\* APIView.check_permissions: every permission class grants the request
HasPermission(user) ==
    \A p \in permission_classes :
        \/ p = "AllowAny"
        \/ p = "IsAuthenticated" /\ user = "authenticated"

HTTP_403_FORBIDDEN == 403

\* APIView.permission_denied: the response to a request without permission
PermissionDeniedResponse ==
    [status_code |-> HTTP_403_FORBIDDEN, data |-> [detail |-> "permission_denied"]]


\* JSONRenderer on a text member of a response body
RenderText(s) == <<"\"">> \o s \o <<"\"">>

\* JSONRenderer on a number member of a response body
RenderNumber(n) == IntToStr(n)

\* the code member of the body of response r as it is sent: the error
\* serializer's validated_data holds it as text
RenderedCode(r) ==
    IF "code" \in DOMAIN r.data THEN Some(RenderText(r.data.code)) ELSE None

(***************************************************************************)
(* The inputs: the payload, the settings, and what the external library    *)
(* answers.                                                                *)
(***************************************************************************)
Urls == {url_short, url_short_padded, url_vimeo, url_not_a_url}

StylePool == {style_Summary, style_Balanced, label_balanced}

Languages == {lang_French}

\* request.user, as the permission classes see it
Users == {"anonymous", "authenticated"}

\* the requests of Spec: request.data, sent without credentials
Payloads ==
    [video_url : {None} \cup {Some(u) : u \in Urls},
     styles : {None} \cup {Some(l) : l \in SeqsUpTo(StylePool, MaxStyles)},
     output_language : {None} \cup {Some(l) : l \in Languages},
     user : {"anonymous"}]

\* the requests of RequestSpec: every shape of video_url with no styles, and
\* every list of styles with a valid video_url, from either kind of user
WideUrls ==
    {url_short, url_short_padded, url_short_leading, url_watch_www, url_watch,
     url_watch_http, url_watch_query, url_embed, url_v, url_trailing, url_no_id,
     url_watch_no_v, url_watch_empty_v, url_www_short, url_mobile, url_channel,
     url_inside, url_space_inside, url_vimeo, url_not_a_url}

WideStylePool ==
    {style_Summary, style_Educational, style_Summary_padded, style_blank,
     style_InvalidStyle, style_NonExistentStyle}

WidePayloads ==
    [video_url : {Some(u) : u \in WideUrls}, styles : {None},
     output_language : {None}, user : Users]
    \cup
    [video_url : {Some(url_short)},
     styles : {Some(l) : l \in SeqsUpTo(WideStylePool, MaxStyleNames)},
     output_language : {None}, user : Users]

\* settings.GETOUTVIDEO_CONFIG: not defined, None, a dict without the key,
\* a dict with the key
SettingsStates == {"unset", "none", "no_key", "has_key"}

\* messages of the unstructured faults the external library raises
FaultMessages ==
    {fault_invalid_url, fault_timeout, fault_bad_api_key, fault_upstream,
     fault_unauthorized, fault_timeout_not_found, fault_auth_timeout, fault_empty,
     fault_nul, fault_authentication}

ExternalFaults == {PlainException("Exception", m) : m \in FaultMessages}

\* what api.get_available_styles() may return
Catalogs == {<<label_summary>>, <<label_summary, label_balanced>>, <<>>}

File(stem, content, exists, decodable) ==
    [stem |-> stem, content |-> content, exists |-> exists, decodable |-> decodable]

\* the files api.process_youtube_url() may name in its result
OutputFileSpace ==
    {File(stem_TestVideo_Summary, content_hello, TRUE, TRUE),
     File(stem_TestVideo_Summary, content_hello_nl, TRUE, TRUE),
     File(stem_TestVideo_Summary, content_nul, TRUE, TRUE),
     File(stem_Foo_Educational, content_B, TRUE, TRUE),
     File(stem_Foo_Educational, content_B, FALSE, TRUE),
     File(stem_Foo_Educational, content_B, TRUE, FALSE),
     File(stem_NoUnderscore, content_hello, TRUE, TRUE),
     File(stem_Foo_Custom, content_B, TRUE, TRUE),
     File(stem_blank_title, content_hello, TRUE, TRUE)}

OutputLists == SeqsUpTo(OutputFileSpace, MaxFiles)

(***************************************************************************)
(* The state of one request.                                               *)
(***************************************************************************)
VARIABLES
    request,         \* request.data
    settings,        \* the state of settings.GETOUTVIDEO_CONFIG
    pc,              \* where the handler is
    validated_data,  \* request_serializer.validated_data, once valid
    styles,          \* the local styles of process_video
    api_calls,       \* the calls made to the external library, in order
    temp_dir,        \* "none", "exists" or "removed"
    output_files,    \* what api.process_youtube_url returned
    parsed,          \* what _parse_output_files returned
    raised_inside,   \* the exception raised inside the service, before its
                     \* except clauses
    classified,      \* the call of _handle_processing_error, if any
    outcome,         \* how the service call ended: a return or a raise
    responses        \* the HTTP responses sent

vars ==
    <<request, settings, pc, validated_data, styles, api_calls, temp_dir,
      output_files, parsed, raised_inside, classified, outcome, responses>>

Init ==
    /\ request \in Payloads
    /\ settings \in SettingsStates
    /\ pc = "post"
    /\ validated_data = None
    /\ styles = None
    /\ api_calls = <<>>
    /\ temp_dir = "none"
    /\ output_files = <<>>
    /\ parsed = None
    /\ raised_inside = None
    /\ classified = None
    /\ outcome = None
    /\ responses = <<>>

\* the record of a call to the external library: what it was given, and
\* what it returned or raised
Call(op, args, result, raised) ==
    [op |-> op, args |-> args, result |-> result, raised |-> raised]

NoArgs == <<>>

video_url == validated_data[1].video_url

output_language == validated_data[1].output_language

\* post, after the permission check of the view: validate the payload; 400
\* or on to _process_video
Post ==
    /\ pc = "post"
    /\ IF ~HasPermission(request.user)
       THEN /\ responses' = Append(responses, PermissionDeniedResponse)
            /\ pc' = "done"
            /\ UNCHANGED validated_data
       ELSE IF RequestIsValid(request)
       THEN /\ validated_data' = Some(ValidatedData(request))
            /\ pc' = "init_service"
            /\ UNCHANGED responses
       ELSE /\ responses' = Append(responses, InvalidRequestResponse(request))
            /\ pc' = "done"
            /\ UNCHANGED validated_data
    /\ UNCHANGED <<request, settings, styles, api_calls, temp_dir, output_files,
                   parsed, raised_inside, classified, outcome>>

\* a faulty variant of ConstructorRaises: the service is constructed outside
\* the try of _process_video and its exception escapes the handler
ConstructorRaises_Escapes(e) ==
    /\ raised_inside' = Some([where |-> "__init__", exc |-> e])
    /\ outcome' = Some([type |-> "raise", exc |-> e])
    /\ responses' = responses
    /\ pc' = "done"

\* VideoProcessingService() raises e: the except clauses of _process_video
ConstructorRaises(e) ==
    /\ raised_inside' = Some([where |-> "__init__", exc |-> e])
    /\ outcome' = Some([type |-> "raise", exc |-> e])
    /\ responses' = Append(responses, ViewExcept(e))
    /\ pc' = "done"

\* VideoProcessingService.__init__
InitService ==
    /\ pc = "init_service"
    /\ \/ /\ settings = "unset"
          /\ ConstructorRaises(PlainException("AttributeError", exc_no_setting))
          /\ UNCHANGED api_calls
       \/ /\ settings = "none"
          /\ ConstructorRaises(PlainException("AttributeError", exc_none_setting))
          /\ UNCHANGED api_calls
       \/ /\ settings = "no_key"
          /\ ConstructorRaises(ConfigurationError(msg_key_missing))
          /\ UNCHANGED api_calls
       \/ /\ settings = "has_key"
          /\ \/ /\ api_calls' = Append(api_calls, Call("GetOutVideoAPI", NoArgs, Some("client"), None))
                /\ pc' = "process_video"
                /\ UNCHANGED <<raised_inside, outcome, responses>>
             \/ \E e \in ExternalFaults :
                    /\ api_calls' = Append(api_calls,
                                           Call("GetOutVideoAPI", NoArgs, None, Some(e)))
                    /\ ConstructorRaises(
                           ConfigurationError(pfx_init_failed \o e.message))
    /\ UNCHANGED <<request, settings, validated_data, styles, temp_dir,
                   output_files, parsed, classified>>

\* a faulty variant of RaiseInProcessVideo: the temporary directory is left
\* behind when an exception leaves the with block
RaiseInProcessVideo_DirLeftBehind(e) ==
    LET h == ProcessVideoExcept(e, video_url)
    IN /\ raised_inside' = Some([where |-> "process_video", exc |-> e])
       /\ classified' = IF h.classified
                        THEN Some([fault |-> e, result |-> h.raised])
                        ELSE None
       /\ temp_dir' = temp_dir
       /\ outcome' = Some([type |-> "raise", exc |-> h.raised])
       /\ responses' = Append(responses, ViewExcept(h.raised))
       /\ pc' = "done"

\* exception e is raised inside the try of process_video: the with block is
\* left, the except clauses run, and _process_video answers
RaiseInProcessVideo(e) ==
    LET h == ProcessVideoExcept(e, video_url)
    IN /\ raised_inside' = Some([where |-> "process_video", exc |-> e])
       /\ classified' = IF h.classified
                        THEN Some([fault |-> e, result |-> h.raised])
                        ELSE None
       /\ temp_dir' = IF temp_dir = "exists" THEN "removed" ELSE temp_dir
       /\ outcome' = Some([type |-> "raise", exc |-> h.raised])
       /\ responses' = Append(responses, ViewExcept(h.raised))
       /\ pc' = "done"

\* a faulty variant of GetAvailableStylesExcept: the fault is not wrapped
GetAvailableStylesExcept_Unwrapped(e) == e

\* the except clause of get_available_styles
GetAvailableStylesExcept(e) == ExternalServiceError(pfx_styles_failed \o e.message)

\* process_video, up to the call of _validate_styles: styles defaults to
\* what get_available_styles returns
ResolveStyles ==
    /\ pc = "process_video"
    /\ IF validated_data[1].styles = None
       THEN \/ \E c \in Catalogs :
                   /\ api_calls' = Append(api_calls,
                          Call("get_available_styles", NoArgs, Some(c), None))
                   /\ styles' = Some(c)
                   /\ pc' = "validate_styles"
                   /\ UNCHANGED <<temp_dir, raised_inside, classified,
                                  outcome, responses>>
            \/ \E e \in ExternalFaults :
                   /\ api_calls' = Append(api_calls,
                          Call("get_available_styles", NoArgs, None, Some(e)))
                   /\ RaiseInProcessVideo(GetAvailableStylesExcept(e))
                   /\ UNCHANGED styles
       ELSE /\ styles' = validated_data[1].styles
            /\ pc' = "validate_styles"
            /\ UNCHANGED <<api_calls, temp_dir, raised_inside, classified,
                           outcome, responses>>
    /\ UNCHANGED <<request, settings, validated_data, output_files, parsed>>

\* _validate_styles
ValidateStyles ==
    /\ pc = "validate_styles"
    /\ \/ \E available_styles \in Catalogs :
              /\ api_calls' = Append(api_calls,
                     Call("get_available_styles", NoArgs, Some(available_styles), None))
              /\ IF InvalidStyles(styles[1], available_styles) # <<>>
                 THEN RaiseInProcessVideo(VideoValidationError(
                          InvalidStylesMessage(styles[1], available_styles)))
                 ELSE /\ pc' = "mktemp"
                      /\ UNCHANGED <<temp_dir, raised_inside, classified,
                                     outcome, responses>>
       \/ \E e \in ExternalFaults :
              /\ api_calls' = Append(api_calls,
                     Call("get_available_styles", NoArgs, None, Some(e)))
              /\ RaiseInProcessVideo(GetAvailableStylesExcept(e))
    /\ UNCHANGED <<request, settings, validated_data, styles, output_files, parsed>>

\* with tempfile.TemporaryDirectory() as temp_dir
EnterTempDir ==
    /\ pc = "mktemp"
    /\ temp_dir' = "exists"
    /\ pc' = "call_api"
    /\ UNCHANGED <<request, settings, validated_data, styles, api_calls,
                   output_files, parsed, raised_inside, classified, outcome,
                   responses>>

\* the record of a call of self.api.process_youtube_url and how it ended
ProcessCall(result, raised) ==
    Call("process_youtube_url",
         [url |-> video_url, output_dir |-> temp_dir, styles |-> styles[1],
          output_language |-> output_language],
         result, raised)

\* a faulty variant of CallProcess: the video_url is checked first, and one
\* of none of the accepted shapes is refused
CallProcess_UrlChecked ==
    /\ pc = "call_api"
    /\ IF ~MatchesYoutubePattern(video_url)
       THEN /\ RaiseInProcessVideo(
                   VideoValidationError(pfx_invalid_video_url \o video_url))
            /\ UNCHANGED <<api_calls, output_files>>
       ELSE \/ \E files \in OutputLists :
                   /\ api_calls' = Append(api_calls, ProcessCall(Some(files), None))
                   /\ output_files' = files
                   /\ pc' = "parse"
                   /\ UNCHANGED <<temp_dir, raised_inside, classified, outcome,
                                  responses>>
            \/ \E e \in ExternalFaults :
                   /\ api_calls' = Append(api_calls, ProcessCall(None, Some(e)))
                   /\ RaiseInProcessVideo(e)
                   /\ UNCHANGED output_files
    /\ UNCHANGED <<request, settings, validated_data, styles, parsed>>

\* self.api.process_youtube_url(...)
CallProcess ==
    /\ pc = "call_api"
    /\ \/ \E files \in OutputLists :
              /\ api_calls' = Append(api_calls, ProcessCall(Some(files), None))
              /\ output_files' = files
              /\ pc' = "parse"
              /\ UNCHANGED <<temp_dir, raised_inside, classified, outcome,
                             responses>>
       \/ \E e \in ExternalFaults :
              /\ api_calls' = Append(api_calls, ProcessCall(None, Some(e)))
              /\ RaiseInProcessVideo(e)
              /\ UNCHANGED output_files
    /\ UNCHANGED <<request, settings, validated_data, styles, parsed>>

\* a faulty variant of ResultData: styles_processed is the list the request
\* gave, empty when it gave none
ResultData_RequestedStyles(results, video_title) ==
    [video_url |-> video_url,
     video_title |-> ReplaceChar(video_title, "_", <<" ">>),
     processed_at |-> "now",
     results |-> results,
     metadata |-> [processing_time |-> "elapsed",
                   language |-> output_language,
                   styles_processed |-> IF validated_data[1].styles = None THEN <<>>
                                        ELSE validated_data[1].styles[1]]]

\* the dict process_video returns
ResultData(results, video_title) ==
    [video_url |-> video_url,
     video_title |-> ReplaceChar(video_title, "_", <<" ">>),
     processed_at |-> "now",
     results |-> results,
     metadata |-> [processing_time |-> "elapsed",
                   language |-> output_language,
                   styles_processed |-> styles[1]]]

\* a faulty variant of ParseOutput: the files are read after the with block
\* was left
ParseOutput_AfterWith ==
    /\ pc = "parse"
    /\ \E p \in {ParseOutputFiles(output_files)} :
          /\ parsed' = Some([results |-> p.results, video_title |-> p.video_title,
                             reads |-> p.reads, temp_dir |-> "removed"])
          /\ IF p.error # None
             THEN RaiseInProcessVideo(p.error[1])
             ELSE /\ pc' = "exit_with"
                  /\ temp_dir' = "removed"
                  /\ UNCHANGED <<raised_inside, classified, outcome, responses>>
    /\ UNCHANGED <<request, settings, validated_data, styles, api_calls,
                   output_files>>

\* _parse_output_files, inside the with block
ParseOutput ==
    /\ pc = "parse"
    /\ \E p \in {ParseOutputFiles(output_files)} :
          /\ parsed' = Some([results |-> p.results, video_title |-> p.video_title,
                             reads |-> p.reads, temp_dir |-> temp_dir])
          /\ IF p.error # None
             THEN RaiseInProcessVideo(p.error[1])
             ELSE /\ pc' = "exit_with"
                  /\ UNCHANGED <<temp_dir, raised_inside, classified, outcome,
                                 responses>>
    /\ UNCHANGED <<request, settings, validated_data, styles, api_calls,
                   output_files>>

\* the return of process_video: the with block is left
ReturnResult ==
    /\ pc = "exit_with"
    /\ temp_dir' = "removed"
    /\ outcome' = Some([type |-> "return",
                        value |-> ResultData(parsed[1].results, parsed[1].video_title)])
    /\ pc' = "respond"
    /\ UNCHANGED <<request, settings, validated_data, styles, api_calls,
                   output_files, parsed, raised_inside, classified, responses>>

\* _create_success_response
Respond ==
    /\ pc = "respond"
    /\ responses' = Append(responses, CreateSuccessResponse(outcome[1].value))
    /\ pc' = "done"
    /\ UNCHANGED <<request, settings, validated_data, styles, api_calls, temp_dir,
                   output_files, parsed, raised_inside, classified, outcome>>

Next ==
    \/ Post
    \/ InitService
    \/ ResolveStyles
    \/ ValidateStyles
    \/ EnterTempDir
    \/ CallProcess
    \/ ParseOutput
    \/ ReturnResult
    \/ Respond

Spec == Init /\ [][Next]_vars

(***************************************************************************)
(* The request validators on their own: one POST up to the end of the      *)
(* serializer's validation, over a wider set of payloads.                  *)
(***************************************************************************)
InitRequest ==
    /\ request \in WidePayloads
    /\ settings = "has_key"
    /\ pc = "post"
    /\ validated_data = None
    /\ styles = None
    /\ api_calls = <<>>
    /\ temp_dir = "none"
    /\ output_files = <<>>
    /\ parsed = None
    /\ raised_inside = None
    /\ classified = None
    /\ outcome = None
    /\ responses = <<>>

RequestSpec == InitRequest /\ [][Post]_vars

(***************************************************************************)
(* The Output Normalizer on its own: one call of process_video from the    *)
(* moment process_youtube_url has returned, over a wider set of output     *)
(* files.                                                                  *)
(***************************************************************************)
\* the files api.process_youtube_url() may name, for NormalizerSpec
WideOutputFileSpace ==
    {File(stem_Foo_Summary, content_A, TRUE, TRUE),
     File(stem_Foo_Summary, content_B, TRUE, TRUE),
     File(stem_Foo_Summary, content_A, FALSE, TRUE),
     File(stem_Foo_Educational, content_B, TRUE, TRUE),
     File(stem_NoUnderscore, content_A, TRUE, TRUE),
     File(stem_NoUnderscore, content_A, TRUE, FALSE),
     File(stem_Foo_Custom, content_B, TRUE, TRUE),
     File(stem_Foo_Pros, content_A, TRUE, TRUE),
     File(stem_Foo_Balanced, content_A, TRUE, TRUE),
     File(stem_Foo_Narrative, content_B, TRUE, TRUE),
     File(stem_Foo_QA, content_A, TRUE, TRUE),
     File(stem_Foo_EduSummary, content_B, TRUE, TRUE),
     File(stem_Foo_EXEC, content_A, TRUE, TRUE),
     File(stem_My_Video_Summary, content_B, TRUE, TRUE)}

WideOutputLists == SeqsUpTo(WideOutputFileSpace, MaxFiles)

\* the state of a request for Summary of url_short when process_youtube_url
\* has just returned its list of files
InitNormalizer ==
    /\ request = [video_url |-> Some(url_short), styles |-> Some(<<style_Summary>>),
                  output_language |-> None, user |-> "anonymous"]
    /\ settings = "has_key"
    /\ pc = "parse"
    /\ validated_data = Some(ValidatedData(request))
    /\ styles = Some(<<style_Summary>>)
    /\ temp_dir = "exists"
    /\ output_files \in WideOutputLists
    /\ api_calls =
           <<Call("GetOutVideoAPI", NoArgs, Some("client"), None),
             Call("get_available_styles", NoArgs, Some(<<label_summary>>), None),
             ProcessCall(Some(output_files), None)>>
    /\ parsed = None
    /\ raised_inside = None
    /\ classified = None
    /\ outcome = None
    /\ responses = <<>>

NormalizerNext ==
    \/ ParseOutput
    \/ ReturnResult
    \/ Respond

NormalizerSpec == InitNormalizer /\ [][NormalizerNext]_vars
(***************************************************************************)
(* process_video called directly: its arguments have not been through the  *)
(* request serializer.                                                     *)
(***************************************************************************)
\* the video_url arguments of a direct call
DirectUrls == {url_short, url_vimeo, url_not_a_url}

\* the arguments of a direct call of process_video
DirectArguments ==
    [video_url : DirectUrls,
     styles : {None} \cup {Some(l) : l \in SeqsUpTo(StylePool, MaxStyles)},
     output_language : {English}]

\* a service object has been constructed and process_video is entered
InitDirectCall ==
    /\ validated_data \in {Some(a) : a \in DirectArguments}
    /\ request = [video_url |-> Some(validated_data[1].video_url),
                  styles |-> validated_data[1].styles,
                  output_language |-> Some(validated_data[1].output_language),
                  user |-> "authenticated"]
    /\ settings = "has_key"
    /\ pc = "process_video"
    /\ styles = None
    /\ api_calls = <<Call("GetOutVideoAPI", NoArgs, Some("client"), None)>>
    /\ temp_dir = "none"
    /\ output_files = <<>>
    /\ parsed = None
    /\ raised_inside = None
    /\ classified = None
    /\ outcome = None
    /\ responses = <<>>

\* process_video, and the answer _process_video would give to its outcome
DirectCallNext ==
    \/ ResolveStyles
    \/ ValidateStyles
    \/ EnterTempDir
    \/ CallProcess
    \/ ParseOutput
    \/ ReturnResult
    \/ Respond

DirectCallSpec == InitDirectCall /\ [][DirectCallNext]_vars

(***************************************************************************)
(* Properties.                                                             *)
(***************************************************************************)
\* the handler has answered, once
Answered == pc = "done" /\ Len(responses) = 1

\* the service call (constructor or process_video) raised a categorized error
RaisedCategorized ==
    /\ outcome # None
    /\ outcome[1].type = "raise"
    /\ IsCategorized(outcome[1].exc)

\* the status code section 7 of the specification gives each kind of error
TaxonomyStatus(kind) ==
    CASE kind = "VideoValidationError" -> 400
      [] kind = "ProcessingTimeoutError" -> 422
      [] kind = "ConfigurationError" -> 500
      [] kind = "ExternalServiceError" -> 502

\* the calls of get_available_styles made so far, in order
CatalogCalls == SelectSeq(api_calls, LAMBDA c : c.op = "get_available_styles")

\* the calls of process_youtube_url made so far
ProcessCalls == SelectSeq(api_calls, LAMBDA c : c.op = "process_youtube_url")

\* C1 as stated: a categorized error raised by the constructor or by
\* process_video is answered with its status_code (400, 422, 500, 502 by kind)
\* and a body with status "error" and error equal to the message of the error.
C1_Original ==
    RaisedCategorized =>
        LET e == outcome[1].exc
            r == responses[1]
        IN /\ Answered
           /\ r.status_code = e.status_code
           /\ r.status_code = TaxonomyStatus(e.kind)
           /\ r.data.status = s_error
           /\ r.data.error = e.message

\* C1 amended: as C1, but the error field is the message with leading and
\* trailing whitespace removed (the error serializer trims it); a message
\* that serializer rejects, blank or holding a null character, is sent as it
\* is.
C1_Amended ==
    RaisedCategorized =>
        LET e == outcome[1].exc
            r == responses[1]
        IN /\ Answered
           /\ r.status_code = e.status_code
           /\ r.status_code = TaxonomyStatus(e.kind)
           /\ r.data.status = s_error
           /\ r.data.error = IF NulChar \in Range(e.message)
                                    \/ Strip(e.message) = <<>>
                             THEN e.message
                             ELSE Strip(e.message)

\* a categorized error whose message ends in whitespace has been answered
C1_Witness ==
    /\ RaisedCategorized
    /\ Answered
    /\ Strip(outcome[1].exc.message) # outcome[1].exc.message
    /\ responses[1].data.error = Strip(outcome[1].exc.message)
    /\ responses[1].status_code = 502

\* the payload has no video_url
MissingVideoUrl == request.video_url = None

\* the payload's video_url is no YouTube URL
NonYoutubeUrl ==
    request.video_url # None /\ request.video_url[1] \in {url_vimeo, url_not_a_url}

\* the payload names a style outside the five request-facing names
InvalidStylesGiven ==
    /\ request.styles # None
    /\ \E i \in DOMAIN request.styles[1] :
           request.styles[1][i] \notin
               {style_Summary, style_Educational, style_Balanced,
                style_QA_Generation, style_Narrative}

\* C2: a payload that fails validation (missing video_url, non-YouTube URL,
\* invalid styles) is answered 400 with status "error", error "Invalid request
\* data" and details naming the failing fields, and the service is neither
\* constructed nor invoked: no call reaches the external library.
C2_InvalidPayloadRejected ==
    (pc # "post" /\ (MissingVideoUrl \/ NonYoutubeUrl \/ InvalidStylesGiven)) =>
        /\ Answered
        /\ responses[1].status_code = 400
        /\ responses[1].data.status = s_error
        /\ responses[1].data.error = msg_invalid_request
        /\ "details" \in DOMAIN responses[1].data
        /\ ("video_url" \in DOMAIN responses[1].data.details)
               <=> (MissingVideoUrl \/ NonYoutubeUrl)
        /\ ("styles" \in DOMAIN responses[1].data.details) <=> InvalidStylesGiven
        /\ api_calls = <<>>
        /\ validated_data = None
        /\ outcome = None
        /\ raised_inside = None

\* a payload with a valid URL and an invalid style has been answered
C2_Witness ==
    /\ Answered
    /\ InvalidStylesGiven
    /\ ~MissingVideoUrl /\ ~NonYoutubeUrl
    /\ responses[1].status_code = 400
    /\ DOMAIN responses[1].data.details = {"styles"}

\* contents of the one output file of the end-to-end case
SummaryContents == {content_hello, content_hello_nl, content_nul}

\* the end-to-end case of C3 has run to its answer: a valid request with only
\* video_url, the catalog ["Summary"] at both fetches, and the one existing
\* file TestVideo_Summary.md with content c
EndToEndCase(c) ==
    /\ Answered
    /\ RequestIsValid(request)
    /\ request.styles = None
    /\ request.output_language = None
    /\ Len(CatalogCalls) = 2
    /\ CatalogCalls[1].result = Some(<<label_summary>>)
    /\ CatalogCalls[2].result = Some(<<label_summary>>)
    /\ Len(ProcessCalls) = 1
    /\ ProcessCalls[1].result =
           Some(<<File(stem_TestVideo_Summary, c, TRUE, TRUE)>>)

RaisedUncategorized ==
    /\ outcome # None
    /\ outcome[1].type = "raise"
    /\ ~IsCategorized(outcome[1].exc)

\* C4: an exception of the service that is no categorized error is answered
\* 500 with the fixed message "An unexpected error occurred during video
\* processing"; the body is this one body whatever the exception's type or
\* message.
C4_UnexpectedIsGeneric ==
    RaisedUncategorized =>
        /\ Answered
        /\ responses[1] =
               [status_code |-> 500,
                data |-> [status |-> s_error, error |-> msg_unexpected,
                          code |-> <<"5", "0", "0">>]]

\* an uncategorized exception with a message of its own has been answered
C4_Witness ==
    /\ RaisedUncategorized
    /\ Answered
    /\ outcome[1].exc.message = exc_none_setting

\* the record process_video returned does not satisfy the response schema:
\* a blank title, or a null character in the title or in a declared result
MalformedResult(v) ==
    \/ Strip(v.video_title) = <<>>
    \/ NulChar \in Range(v.video_title)
    \/ \E k \in DOMAIN v.results \cap ResultFields : NulChar \in Range(v.results[k])

\* C5: when process_video returned and the assembled response does not
\* satisfy the response schema, the answer is 500 with error "Response
\* formatting error", and no 200 carries the malformed data.
C5_MalformedIsFormattingError ==
    (pc = "done" /\ outcome # None /\ outcome[1].type = "return"
        /\ MalformedResult(outcome[1].value)) =>
        /\ Answered
        /\ responses[1].status_code = 500
        /\ responses[1].data.status = s_error
        /\ responses[1].data.error = msg_formatting
        /\ "data" \notin DOMAIN responses[1].data

\* process_video returned a record with a blank title, and it was answered
C5_Witness ==
    /\ Answered
    /\ outcome # None
    /\ outcome[1].type = "return"
    /\ Strip(outcome[1].value.video_title) = <<>>
    /\ responses[1].status_code = 500

\* the kind section 4.5 of the specification gives a fault with message msg:
\* the first class, in its order, with a keyword in the lowercased message
ClassifierKind(msg) ==
    LET m == Lower(msg)
    IN IF Contains(kw_invalid_url, m) \/ Contains(kw_not_found, m)
             \/ Contains(kw_unavailable, m)
       THEN "VideoValidationError"
       ELSE IF Contains(kw_timeout, m) THEN "ProcessingTimeoutError"
       ELSE IF Contains(kw_api_key, m) \/ Contains(kw_authentication, m)
       THEN "ConfigurationError"
       ELSE "ExternalServiceError"

\* C6: the Error Classifier searches the lowercased message, first match wins:
\* "invalid url", "not found" or "unavailable" give Validation, otherwise
\* "timeout" gives Timeout, otherwise "api key" or "authentication" give
\* Configuration, otherwise ExternalService; a message with keywords of
\* several classes gets the earliest class.
C6_ClassifierPrecedence ==
    classified # None =>
        LET msg == classified[1].fault.message
            kind == classified[1].result.kind
        IN /\ kind = ClassifierKind(msg)
           /\ msg = fault_invalid_url => kind = "VideoValidationError"
           /\ msg = fault_timeout => kind = "ProcessingTimeoutError"
           /\ msg = fault_bad_api_key => kind = "ConfigurationError"
           /\ msg = fault_upstream => kind = "ExternalServiceError"
           /\ msg = fault_timeout_not_found => kind = "VideoValidationError"
           /\ msg = fault_auth_timeout => kind = "ProcessingTimeoutError"

\* a fault naming "timeout" and "not found" has been classified Validation
C6_Witness ==
    /\ classified # None
    /\ classified[1].fault.message = fault_timeout_not_found
    /\ classified[1].result.kind = "VideoValidationError"
    /\ Answered
    /\ responses[1].status_code = 400

\* a categorized error was raised inside process_video
CategorizedRaisedInside ==
    /\ raised_inside # None
    /\ raised_inside[1].where = "process_video"
    /\ IsCategorized(raised_inside[1].exc)

\* C7: a categorized error raised inside process_video leaves the call
\* unchanged (same kind, message and status_code), is not passed through the
\* Error Classifier and is not wrapped.
C7_CategorizedPropagates ==
    CategorizedRaisedInside =>
        /\ outcome # None
        /\ outcome[1].type = "raise"
        /\ outcome[1].exc = raised_inside[1].exc
        /\ classified = None

\* an ExternalService error whose message names "timeout" was raised inside
\* process_video and left it as it was
C7_Witness ==
    /\ CategorizedRaisedInside
    /\ raised_inside[1].exc.kind = "ExternalServiceError"
    /\ Contains(kw_timeout, Lower(raised_inside[1].exc.message))
    /\ outcome[1].exc = raised_inside[1].exc

\* the calls of get_available_styles and process_youtube_url that raised
FaultedCalls ==
    {i \in DOMAIN api_calls :
        /\ api_calls[i].op \in {"get_available_styles", "process_youtube_url"}
        /\ api_calls[i].raised # None}

\* C8 as stated: a fault raised by get_available_styles or by the processing
\* call is classified by the rules of 4.5 (one whose message contains
\* "timeout" gives a Timeout error, 422; "api key" a Configuration error).
C8_Original ==
    \A i \in FaultedCalls :
        /\ outcome # None
        /\ outcome[1].type = "raise"
        /\ outcome[1].exc.kind = ClassifierKind(api_calls[i].raised[1].message)
        /\ Answered
        /\ responses[1].status_code =
               TaxonomyStatus(ClassifierKind(api_calls[i].raised[1].message))

\* C8 amended: a fault raised by the processing call is classified by the
\* rules of 4.5; a fault raised by get_available_styles is not: whatever its
\* message, process_video raises an ExternalService error (502) with the
\* message "Failed to get available styles: " followed by the fault's message.
C8_Amended ==
    \A i \in FaultedCalls :
        /\ outcome # None
        /\ outcome[1].type = "raise"
        /\ Answered
        /\ api_calls[i].op = "process_youtube_url" =>
               /\ outcome[1].exc.kind = ClassifierKind(api_calls[i].raised[1].message)
               /\ responses[1].status_code =
                      TaxonomyStatus(ClassifierKind(api_calls[i].raised[1].message))
        /\ api_calls[i].op = "get_available_styles" =>
               /\ outcome[1].exc.kind = "ExternalServiceError"
               /\ outcome[1].exc.message =
                      pfx_styles_failed \o api_calls[i].raised[1].message
               /\ outcome[1].exc.status_code = 502
               /\ classified = None
               /\ responses[1].status_code = 502

\* get_available_styles raised a fault naming "timeout", answered 502
C8_Witness ==
    /\ Answered
    /\ \E i \in FaultedCalls :
           /\ api_calls[i].op = "get_available_styles"
           /\ api_calls[i].raised[1].message = fault_timeout
    /\ responses[1].status_code = 502

\* the catalog _validate_styles fetched, once it has: the second fetch when
\* the request gave no styles, the first otherwise
ValidationCatalog ==
    IF validated_data = None THEN None
    ELSE LET n == IF validated_data[1].styles = None THEN 2 ELSE 1
         IN IF Len(CatalogCalls) >= n THEN CatalogCalls[n].result ELSE None

\* the text "Invalid styles: ['Balanced']. Available styles: ['Summary']"
InvalidBalancedText ==
    pfx_invalid_styles \o <<"[", "'">> \o style_Balanced \o <<"'", "]">>
        \o mid_available_styles \o <<"[", "'">> \o label_summary \o <<"'", "]">>

\* C9: when a requested style is not in the fetched catalog, process_video
\* fails with a Validation error naming the invalid styles and the available
\* styles, before any processing work: no temporary directory is created and
\* the external processing call is not invoked.
C9_InvalidStyleStopsEarly ==
    (ValidationCatalog # None
        /\ \E i \in DOMAIN styles[1] : styles[1][i] \notin Range(ValidationCatalog[1])) =>
        /\ outcome # None
        /\ outcome[1].type = "raise"
        /\ outcome[1].exc.kind = "VideoValidationError"
        /\ outcome[1].exc.status_code = 400
        /\ \A i \in DOMAIN styles[1] :
               styles[1][i] \notin Range(ValidationCatalog[1]) =>
                   Contains(<<"'">> \o styles[1][i] \o <<"'">>, outcome[1].exc.message)
        /\ \A a \in Range(ValidationCatalog[1]) :
               Contains(<<"'">> \o a \o <<"'">>, outcome[1].exc.message)
        /\ (styles[1] = <<style_Balanced>> /\ ValidationCatalog[1] = <<label_summary>>)
               => outcome[1].exc.message = InvalidBalancedText
        /\ temp_dir = "none"
        /\ ProcessCalls = <<>>

\* the request asked for Balanced, the catalog was ["Summary"], and the call
\* failed with the Validation error
C9_Witness ==
    /\ ValidationCatalog = Some(<<label_summary>>)
    /\ styles = Some(<<style_Balanced>>)
    /\ outcome # None
    /\ outcome[1].type = "raise"
    /\ outcome[1].exc.message = InvalidBalancedText
    /\ Answered
    /\ responses[1].status_code = 400

\* C10: when styles is absent, the list get_available_styles returned is the
\* requested set: it is what the external processing call is given and what
\* metadata.styles_processed reports.
C10_AbsentStylesUseCatalog ==
    (validated_data # None /\ validated_data[1].styles = None) =>
        /\ \A i \in DOMAIN ProcessCalls :
               /\ CatalogCalls # <<>>
               /\ CatalogCalls[1].result = Some(ProcessCalls[i].args.styles)
        /\ (outcome # None /\ outcome[1].type = "return") =>
               /\ CatalogCalls # <<>>
               /\ CatalogCalls[1].result =
                      Some(outcome[1].value.metadata.styles_processed)

\* a request without styles was processed with the two styles of the catalog
C10_Witness ==
    /\ validated_data # None
    /\ validated_data[1].styles = None
    /\ Len(ProcessCalls) = 1
    /\ ProcessCalls[1].args.styles = <<label_summary, label_balanced>>
    /\ outcome # None
    /\ outcome[1].type = "return"
    /\ outcome[1].value.metadata.styles_processed = <<label_summary, label_balanced>>

\* the request asked for no style: styles is absent, or present and empty
NoStylesRequested ==
    /\ validated_data # None
    /\ validated_data[1].styles \in {None, Some(<<>>)}

\* C11: if no styles are requested, including a request whose styles list is
\* present but empty, the list fetched from the external service is
\* substituted: the processing call is given that list, never the empty list
\* of the request.
C11_NoStylesMeansAll ==
    NoStylesRequested =>
        \A i \in DOMAIN ProcessCalls :
            /\ CatalogCalls # <<>>
            /\ CatalogCalls[1].result = Some(ProcessCalls[i].args.styles)

\* post has run its validation of the request
Validated == pc # "post"

\* the names of the request's styles list, as sent
GivenStyles == request.styles[1]

\* the five request-facing names
CanonicalNames ==
    {style_Summary, style_Educational, style_Balanced, style_QA_Generation,
     style_Narrative}

\* the text "Summary, Educational, Balanced, QA Generation, Narrative"
CanonicalNamesText ==
    style_Summary \o <<",", " ">> \o style_Educational \o <<",", " ">>
        \o style_Balanced \o <<",", " ">> \o style_QA_Generation
        \o <<",", " ">> \o style_Narrative

\* the response is the 400 of an invalid request with an error of styles
StylesRejected ==
    /\ pc = "done"
    /\ Len(responses) = 1
    /\ responses[1].status_code = 400
    /\ "details" \in DOMAIN responses[1].data
    /\ "styles" \in DOMAIN responses[1].data.details

\* the failure names the style: it quotes it
Names(message, style) == Contains(<<"'">> \o style \o <<"'">>, message)

\* the entries pass the field of a list entry: not blank, no null character,
\* at most 50 characters
EntriesWellFormed ==
    \A i \in DOMAIN GivenStyles :
        /\ Strip(GivenStyles[i]) # <<>>
        /\ NulChar \notin Range(GivenStyles[i])
        /\ Len(Strip(GivenStyles[i])) <= 50

\* C12 as stated, for the lists of well-formed names without surrounding
\* whitespace: when at least one name
\* is outside {Summary, Educational, Balanced, QA Generation, Narrative}, the
\* static validation fails and the failure lists exactly the invalid names of
\* the list: all of them, and none of the valid ones.
C12_Original ==
    (Validated /\ request.styles # None /\ EntriesWellFormed
        /\ (\A k \in DOMAIN GivenStyles : Strip(GivenStyles[k]) = GivenStyles[k])
        /\ \E i \in DOMAIN GivenStyles : GivenStyles[i] \notin CanonicalNames) =>
        /\ StylesRejected
        /\ \A i \in DOMAIN GivenStyles :
               Names(responses[1].data.details.styles.message, GivenStyles[i])
                   <=> GivenStyles[i] \notin CanonicalNames

\* the indexes of the entries that, trimmed, are outside the canonical names
InvalidEntries == {i \in DOMAIN GivenStyles : Strip(GivenStyles[i]) \notin CanonicalNames}

\* C12 amended: for every requested style list whose entries are well formed
\* and which has at least one name that, with surrounding whitespace removed,
\* is outside the five canonical names, the static validation fails and the
\* failure names one invalid name only, the first in list order, followed by
\* the valid set.
C12_Amended ==
    (Validated /\ request.styles # None /\ EntriesWellFormed /\ InvalidEntries # {}) =>
        LET first == CHOOSE i \in InvalidEntries : \A j \in InvalidEntries : i <= j
        IN /\ StylesRejected
           /\ responses[1].data.details.styles.code = "invalid"
           /\ responses[1].data.details.styles.message =
                  <<"I", "n", "v", "a", "l", "i", "d", " ", "s", "t", "y", "l", "e", " ", "'">>
                      \o Strip(GivenStyles[first])
                      \o <<"'", ".", " ", "V", "a", "l", "i", "d", " ", "s", "t", "y",
                           "l", "e", "s", " ", "a", "r", "e", ":", " ">>
                      \o CanonicalNamesText
           /\ validated_data = None
           /\ api_calls = <<>>

\* a list of two invalid names was rejected naming the first and not the
\* second
C12_Witness ==
    /\ Validated
    /\ request.styles = Some(<<style_InvalidStyle, style_NonExistentStyle>>)
    /\ StylesRejected
    /\ Names(responses[1].data.details.styles.message, style_InvalidStyle)
    /\ ~Names(responses[1].data.details.styles.message, style_NonExistentStyle)

\* the characters of an <id>: word characters and the hyphen
IdChars ==
    Range(UpperCase) \cup Range(LowerCase) \cup Range(DigitChars) \cup {"_", "-"}

\* the text s written as a sequence of characters begins with p
Begins(s, p) == Len(s) >= Len(p) /\ SubSeq(s, 1, Len(p)) = p

\* the starts of the accepted shapes, up to the <id>: http or https, then
\* youtube.com with optional www. and /watch?v=, /embed/ or /v/, or youtu.be/
ShapeStarts ==
    LET schemes == {<<"h", "t", "t", "p", ":", "/", "/">>,
                    <<"h", "t", "t", "p", "s", ":", "/", "/">>}
        www == {<<>>, <<"w", "w", "w", ".">>}
        youtube == <<"y", "o", "u", "t", "u", "b", "e", ".", "c", "o", "m", "/">>
        paths == {<<"w", "a", "t", "c", "h", "?", "v", "=">>,
                  <<"e", "m", "b", "e", "d", "/">>, <<"v", "/">>}
    IN {s \o w \o youtube \o p : s \in schemes, w \in www, p \in paths}
       \cup {s \o <<"y", "o", "u", "t", "u", ".", "b", "e", "/">> : s \in schemes}

\* the starts of the shape /watch?...v=<id>, up to the query
WatchStarts ==
    {s \o w \o <<"y", "o", "u", "t", "u", "b", "e", ".", "c", "o", "m", "/",
                 "w", "a", "t", "c", "h", "?">> :
        s \in {<<"h", "t", "t", "p", ":", "/", "/">>,
               <<"h", "t", "t", "p", "s", ":", "/", "/">>},
        w \in {<<>>, <<"w", "w", "w", ".">>}}

\* the string starts with one of the accepted shapes
StartsWithAcceptedShape(v) ==
    \/ \E p \in ShapeStarts :
           Begins(v, p) /\ Len(v) > Len(p) /\ v[Len(p) + 1] \in IdChars
    \/ \E p \in WatchStarts :
           /\ Begins(v, p)
           /\ \E i \in (Len(p) + 1)..(Len(v) - 2) :
                  v[i] = "v" /\ v[i + 1] = "=" /\ v[i + 2] \in IdChars

\* the string the field hands to validate_video_url: the submitted one,
\* trimmed
HandedUrl == Strip(request.video_url[1])

\* validate_video_url was called: the field itself raised no error
UrlValidatorCalled ==
    /\ Validated
    /\ request.video_url # None
    /\ pc = "done" =>
           \/ "video_url" \notin DOMAIN responses[1].data.details
           \/ responses[1].data.details.video_url = "invalid_youtube_url"

\* validate_video_url raised its validation failure
UrlValidatorRejected ==
    /\ pc = "done"
    /\ Len(responses) = 1
    /\ responses[1].status_code = 400
    /\ "video_url" \in DOMAIN responses[1].data.details
    /\ responses[1].data.details.video_url = "invalid_youtube_url"

\* C13: validate_video_url accepts the string it is given, returning it
\* unchanged, exactly when the string starts with one of the accepted shapes,
\* and rejects every other string with a validation failure.
C13_UrlValidator ==
    UrlValidatorCalled =>
        /\ StartsWithAcceptedShape(HandedUrl) <=> ~UrlValidatorRejected
        /\ StartsWithAcceptedShape(HandedUrl) =>
               /\ pc = "done" => "video_url" \notin DOMAIN responses[1].data.details
               /\ pc # "done" =>
                      validated_data # None /\ validated_data[1].video_url = HandedUrl

\* a URL of the shape /watch?...v=<id> with trailing text was accepted and
\* returned as it was, and no request was answered
C13_Witness ==
    /\ UrlValidatorCalled
    /\ request.video_url = Some(url_watch_query)
    /\ validated_data # None
    /\ validated_data[1].video_url = url_watch_query
    /\ responses = <<>>

\* C14: every temporary directory process_video creates is removed by the
\* time the call returns or raises, on every exit path; it exists while the
\* processing call and the reading of the output files run, and is never
\* created again.
C14_TempDirRemoved ==
    /\ outcome # None => temp_dir \in {"none", "removed"}
    /\ (outcome # None /\ ProcessCalls # <<>>) => temp_dir = "removed"
    /\ \A i \in DOMAIN ProcessCalls : ProcessCalls[i].args.output_dir = "exists"
    /\ parsed # None => parsed[1].temp_dir = "exists"
    /\ pc \in {"call_api", "parse", "exit_with"} => temp_dir = "exists"

\* the three exits of C14 with the directory removed: a return, a fault of
\* the processing call, a failure while reading the output files
ExitedAfterReturn ==
    outcome # None /\ outcome[1].type = "return" /\ temp_dir = "removed"

ExitedAfterProcessingFault ==
    /\ outcome # None
    /\ outcome[1].type = "raise"
    /\ Len(ProcessCalls) = 1
    /\ ProcessCalls[1].raised # None
    /\ temp_dir = "removed"

ExitedAfterReadFailure ==
    /\ outcome # None
    /\ outcome[1].type = "raise"
    /\ parsed # None
    /\ raised_inside # None
    /\ raised_inside[1].exc.kind = "UnicodeDecodeError"
    /\ temp_dir = "removed"

\* the reading of the output files failed and the directory was removed
C14_Witness == ExitedAfterReadFailure /\ Answered

\* _parse_output_files has returned (no read failed)
Normalized == parsed # None /\ raised_inside = None

\* the canonical key the table gives the files of these names
TableKeyOf ==
    (stem_Foo_Summary :> key_summary)
    @@ (stem_Foo_Educational :> key_educational)
    @@ (stem_Foo_Balanced :> key_balanced)
    @@ (stem_Foo_Narrative :> key_narrative)
    @@ (stem_Foo_QA :> key_qa_generation)
    @@ (stem_Foo_EduSummary :> key_summary)
    @@ (stem_Foo_EXEC :> key_summary)

\* C15: the Output Normalizer maps a file named <title>_<label> to a
\* canonical key by trying the table in order, matching on whether the
\* normalized table label is a substring of the normalized raw label, first
\* match winning; files Foo_Summary (content A) and Foo_Educational (content
\* B) yield results {summary: A, educational: B} and title Foo.
C15_TableOrder ==
    Normalized =>
        /\ (Len(output_files) = 1 /\ output_files[1].exists
                /\ output_files[1].stem \in DOMAIN TableKeyOf) =>
               /\ parsed[1].results =
                      (TableKeyOf[output_files[1].stem] :> output_files[1].content)
               /\ parsed[1].video_title = <<"F", "o", "o">>
        /\ output_files = <<File(stem_Foo_Summary, content_A, TRUE, TRUE),
                            File(stem_Foo_Educational, content_B, TRUE, TRUE)>> =>
               /\ parsed[1].results =
                      (key_summary :> content_A) @@ (key_educational :> content_B)
               /\ parsed[1].video_title = <<"F", "o", "o">>

\* the files Foo_Summary and Foo_Educational have been normalized
C15_Witness ==
    /\ Normalized
    /\ output_files = <<File(stem_Foo_Summary, content_A, TRUE, TRUE),
                        File(stem_Foo_Educational, content_B, TRUE, TRUE)>>
    /\ DOMAIN parsed[1].results = {key_summary, key_educational}
    /\ parsed[1].results[key_educational] = content_B

\* a label holding two table labels has been given the key of the earlier
\* table entry
TableOrderDecided ==
    /\ Normalized
    /\ output_files = <<File(stem_Foo_EduSummary, content_B, TRUE, TRUE)>>
    /\ parsed[1].results = (key_summary :> content_B)

\* the list of output files without the files whose stem has no separator
WithSeparator == SelectSeq(output_files, LAMBDA f : "_" \in Range(f.stem))

FallbackKeyOf ==
    (stem_Foo_Custom :> <<"c", "u", "s", "t", "o", "m", "_", "s", "t", "y", "l", "e">>)
    @@ (stem_Foo_Pros :>
            <<"p", "r", "o", "s", "_", "a", "n", "d", "_", "c", "o", "n", "s">>)

\* the key each stem with a separator resolves to
ExpectedKeyOf ==
    TableKeyOf @@ FallbackKeyOf @@ (stem_My_Video_Summary :> key_summary)

\* the indexes of the files that are read and have a separator in their stem
Contributing ==
    {i \in DOMAIN output_files :
        output_files[i].exists /\ "_" \in Range(output_files[i].stem)}

\* no later file of the list resolves to the key of file i
LastForItsKey(i) ==
    \A j \in Contributing :
        j > i => ExpectedKeyOf[output_files[j].stem] # ExpectedKeyOf[output_files[i].stem]

\* C17: when several output files resolve to the same result key, the results
\* mapping holds the content of the last such file in list order; every
\* other key is unaffected.
C17_LastWriteWins ==
    Normalized =>
        /\ DOMAIN parsed[1].results =
               {ExpectedKeyOf[output_files[i].stem] : i \in Contributing}
        /\ \A i \in Contributing :
               LastForItsKey(i) =>
                   parsed[1].results[ExpectedKeyOf[output_files[i].stem]] =
                       output_files[i].content

\* two files of different names resolved to summary, and the content of the
\* second is kept
C17_Witness ==
    /\ Normalized
    /\ output_files = <<File(stem_Foo_Summary, content_A, TRUE, TRUE),
                        File(stem_Foo_EduSummary, content_B, TRUE, TRUE)>>
    /\ parsed[1].results = (key_summary :> content_B)

\* C18: when the raw label of an output file matches no table entry, the
\* normalizer stores its content under the fallback key: the label in lower
\* case with spaces replaced by underscores and & by and; the content is not
\* dropped by the normalizer.
C18_FallbackKey ==
    Normalized =>
        \A i \in Contributing :
            output_files[i].stem \in DOMAIN FallbackKeyOf =>
                /\ FallbackKeyOf[output_files[i].stem] \in DOMAIN parsed[1].results
                /\ LastForItsKey(i) =>
                       parsed[1].results[FallbackKeyOf[output_files[i].stem]] =
                           output_files[i].content

\* the file Foo_Pros & Cons was normalized to the key pros_and_cons
C18_Witness ==
    /\ Normalized
    /\ output_files = <<File(stem_Foo_Pros, content_A, TRUE, TRUE)>>
    /\ parsed[1].results =
           (<<"p", "r", "o", "s", "_", "a", "n", "d", "_", "c", "o", "n", "s">> :> content_A)

\* C19: a POST without authentication is rejected with 403 Forbidden and
\* never reaches request validation or the service; the view requires the
\* IsAuthenticated permission.
C19_UnauthenticatedRejected ==
    request.user = "anonymous" /\ pc # "post" =>
           /\ "IsAuthenticated" \in permission_classes
           /\ pc = "done"
           /\ Len(responses) = 1
           /\ responses[1].status_code = HTTP_403_FORBIDDEN
           /\ validated_data = None
           /\ outcome = None
           /\ api_calls = <<>>

\* the service raised, categorized or not, and the view answered
ErrorAnswered == (RaisedCategorized \/ RaisedUncategorized) /\ Answered

\* the error serializer accepts the message the view answers with
MessageAccepted ==
    LET message == IF RaisedCategorized THEN outcome[1].exc.message
                   ELSE msg_unexpected
    IN Strip(message) # <<>> /\ NulChar \notin Range(message)

C20_WitnessNoCode ==
    /\ ErrorAnswered
    /\ ~MessageAccepted
    /\ "code" \notin DOMAIN responses[1].data

\* the message test_init_missing_config expects of the constructor
msg_config_missing_key ==
    <<"G","e","t","O","u","t","V","i","d","e","o"," ","c","o","n","f","i","g","u",
      "r","a","t","i","o","n"," ","i","s"," ","m","i","s","s","i","n","g"," ","A",
      "P","I"," ","k","e","y">>

\* the constructor ran with a GETOUTVIDEO_CONFIG that holds no API key
ConstructedWithoutKey == settings = "no_key" /\ pc \notin {"post", "init_service"}

\* C21: constructing VideoProcessingService when no API key is configured
\* raises a Configuration error with the message "GetOutVideo configuration
\* is missing API key", and no external-service client is created.
C21_MissingKeyMessage ==
    ConstructedWithoutKey =>
        /\ outcome # None
        /\ outcome[1].type = "raise"
        /\ outcome[1].exc.kind = "ConfigurationError"
        /\ outcome[1].exc.message = msg_config_missing_key
        /\ api_calls = <<>>

\* the processing call raised the fault "401 Unauthorized"
UnauthorizedFault ==
    \E i \in DOMAIN api_calls :
        /\ api_calls[i].op = "process_youtube_url"
        /\ api_calls[i].raised # None
        /\ api_calls[i].raised[1].message =
               <<"4", "0", "1", " ", "U", "n", "a", "u", "t", "h", "o", "r", "i", "z", "e", "d">>

\* C22: a fault of the processing call whose message is "401 Unauthorized"
\* is raised by process_video as a Configuration error with the message "API
\* authentication failed".
C22_UnauthorizedIsConfiguration ==
    UnauthorizedFault =>
        /\ outcome # None
        /\ outcome[1].type = "raise"
        /\ outcome[1].exc.kind = "ConfigurationError"
        /\ outcome[1].exc.message =
               <<"A", "P", "I", " ", "a", "u", "t", "h", "e", "n", "t", "i", "c", "a", "t",
                 "i", "o", "n", " ", "f", "a", "i", "l", "e", "d">>

\* the call of the external library that raised, if one did
FaultedCall ==
    {i \in DOMAIN api_calls : api_calls[i].raised # None}

\* a fault of the external library ended as a Configuration or an
\* ExternalService error, and the view answered
FaultEndedAsServiceError ==
    /\ FaultedCall # {}
    /\ outcome # None
    /\ outcome[1].type = "raise"
    /\ outcome[1].exc.kind \in {"ConfigurationError", "ExternalServiceError"}
    /\ Answered

\* the error that leaves the service when call op of the library raises a
\* fault with the text message, all else as in this request
ErrorOfFault(op, message) ==
    CASE op = "GetOutVideoAPI" -> ConfigurationError(pfx_init_failed \o message)
      [] op = "get_available_styles" ->
             ProcessVideoExcept(
                 GetAvailableStylesExcept(PlainException("Exception", message)),
                 video_url).raised
      [] op = "process_youtube_url" ->
             ProcessVideoExcept(PlainException("Exception", message), video_url).raised

\* C23 as stated: for a fault that ends as a Configuration or ExternalService
\* error, the fault's detail is not exposed: the request that differs only in
\* the text of the fault, classified to the same kind, gets the same body.
C23_Original ==
    FaultEndedAsServiceError =>
        \A i \in FaultedCall : \A other \in FaultMessages :
            ErrorOfFault(api_calls[i].op, other).kind = outcome[1].exc.kind =>
                ViewExcept(ErrorOfFault(api_calls[i].op, other)).data = responses[1].data

\* the fault went through the Error Classifier and came out a Configuration
\* error
ClassifiedConfiguration ==
    /\ classified # None
    /\ classified[1].result.kind = "ConfigurationError"

\* C23 amended: a fault of the processing call that the Error Classifier
\* makes a Configuration error is not exposed: the body is the same whatever
\* the text of the fault (error "API authentication failed"). A fault that
\* ends as an ExternalService error, or as the Configuration error of a
\* failed construction of the client, is exposed: the error field is the
\* categorized message, a fixed prefix followed by the text of the fault.
C23_Amended ==
    FaultEndedAsServiceError =>
        \A i \in FaultedCall :
            LET text == api_calls[i].raised[1].message
                exposed == IF api_calls[i].op = "GetOutVideoAPI"
                           THEN pfx_init_failed \o text
                           ELSE IF api_calls[i].op = "get_available_styles"
                           THEN pfx_styles_failed \o text
                           ELSE pfx_external_error \o text
            IN IF ClassifiedConfiguration
               THEN /\ api_calls[i].op = "process_youtube_url"
                    /\ responses[1] =
                           [status_code |-> 500,
                            data |-> [status |-> s_error,
                                      error |-> msg_auth_failed,
                                      code |-> <<"5", "0", "0">>]]
                    /\ \A other \in FaultMessages :
                           ClassifierKind(other) = "ConfigurationError" =>
                               ViewExcept(ErrorOfFault(api_calls[i].op, other)).data
                                   = responses[1].data
               ELSE /\ outcome[1].exc.message = exposed
                    /\ responses[1].data.error =
                           IF NulChar \in Range(exposed) THEN exposed
                           ELSE Strip(exposed)

\* a fault with the text "Authentication failed", one of two texts the
\* classifier makes a Configuration error, was answered with the fixed body
C23_Witness ==
    /\ FaultEndedAsServiceError
    /\ ClassifiedConfiguration
    /\ classified[1].fault.message = fault_authentication
    /\ ClassifierKind(fault_bad_api_key) = "ConfigurationError"
    /\ fault_bad_api_key # fault_authentication
    /\ responses[1].data.error = msg_auth_failed

\* the styles passed the check of _validate_styles: the last catalog fetched
\* holds every one of them
StyleValidationSucceeded ==
    /\ styles # None
    /\ CatalogCalls # <<>>
    /\ CatalogCalls[Len(CatalogCalls)].result # None
    /\ \A i \in DOMAIN styles[1] :
           styles[1][i] \in Range(CatalogCalls[Len(CatalogCalls)].result[1])

\* the output files that exist
ExistingFiles == {i \in DOMAIN output_files : output_files[i].exists}

\* C24: within one process_video call the temporary directory is created
\* only after style validation succeeded, the processing call runs while the
\* directory exists and after every catalog fetch, the normalizer reads the
\* output files before the directory is removed, and nothing is read or
\* called after the removal.
C24_StepsOrdered ==
    /\ temp_dir # "none" => StyleValidationSucceeded
    /\ \A i \in DOMAIN api_calls :
           api_calls[i].op = "process_youtube_url" =>
               /\ api_calls[i].args.output_dir = "exists"
               /\ i = Len(api_calls)
               /\ api_calls[i - 1].op = "get_available_styles"
    /\ parsed # None =>
           /\ ProcessCalls # <<>>
           /\ parsed[1].temp_dir = "exists"
           /\ raised_inside = None => parsed[1].reads = Cardinality(ExistingFiles)
    /\ temp_dir = "removed" =>
           /\ pc \in {"respond", "done"}
           /\ ProcessCalls # <<>>
           /\ ProcessCalls[1].result # None => parsed # None

\* a call that went through every step: two files read, the directory
\* removed, the answer sent
C24_Witness ==
    /\ pc = "done"
    /\ StyleValidationSucceeded
    /\ ProcessCalls # <<>>
    /\ ProcessCalls[1].args.output_dir = "exists"
    /\ parsed # None
    /\ parsed[1].reads = 2
    /\ parsed[1].temp_dir = "exists"
    /\ temp_dir = "removed"

\* the video_url of the call has none of the accepted shapes
UrlNotAccepted == ~StartsWithAcceptedShape(video_url)

StylesAbsent == validated_data # None /\ validated_data[1].styles = None

\* process_video failed with the "Invalid styles" Validation error
FailedWithInvalidStyles ==
    /\ outcome # None
    /\ outcome[1].type = "raise"
    /\ outcome[1].exc.kind = "VideoValidationError"
    /\ Len(outcome[1].exc.message) >= Len(pfx_invalid_styles)
    /\ SubSeq(outcome[1].exc.message, 1, Len(pfx_invalid_styles)) = pfx_invalid_styles

\* C26: when styles is absent the resolved style list always passes the
\* dynamic validation: process_video never fails with the "Invalid styles"
\* Validation error, whatever catalogs the successive get_available_styles
\* calls of the request return.
C26_AbsentStylesNeverInvalid ==
    StylesAbsent => ~FailedWithInvalidStyles

\* the request names its styles
StylesNamed == request.styles # None

\* C27: for a request through the view that names styles explicitly, every
\* style passed to the processing call belongs to both the static allow-list
\* {Summary, Educational, Balanced, QA Generation, Narrative} and the catalog
\* fetched for that request; a style in only one of the two never reaches the
\* processing call.
C27_StylesInBothLists ==
    StylesNamed =>
        \A i \in DOMAIN api_calls :
            api_calls[i].op = "process_youtube_url" =>
                /\ Len(CatalogCalls) = 1
                /\ CatalogCalls[1].result # None
                /\ \A k \in DOMAIN api_calls[i].args.styles :
                       /\ api_calls[i].args.styles[k] \in CanonicalNames
                       /\ api_calls[i].args.styles[k] \in Range(CatalogCalls[1].result[1])

\* the style Summary, in both lists, reached the processing call
C27_Witness ==
    /\ StylesNamed
    /\ Len(ProcessCalls) = 1
    /\ ProcessCalls[1].args.styles = <<<<"S", "u", "m", "m", "a", "r", "y">>>>
    /\ CatalogCalls[1].result[1] =
           <<<<"S", "u", "m", "m", "a", "r", "y">>,
             <<"B", "a", "l", "a", "n", "c", "e", "d", " ", "a", "n", "d", " ",
               "D", "e", "t", "a", "i", "l", "e", "d">>>>

\* Balanced, a style of the static list only, was stopped by the catalog
C27_StaticOnlyStopped ==
    /\ StylesNamed
    /\ request.styles[1] = <<<<"B", "a", "l", "a", "n", "c", "e", "d">>>>
    /\ FailedWithInvalidStyles
    /\ ProcessCalls = <<>>

\* the five keys the response declares for results
DeclaredKeys ==
    {<<"s", "u", "m", "m", "a", "r", "y">>,
     <<"e", "d", "u", "c", "a", "t", "i", "o", "n", "a", "l">>,
     <<"b", "a", "l", "a", "n", "c", "e", "d">>,
     <<"q", "a", "_", "g", "e", "n", "e", "r", "a", "t", "i", "o", "n">>,
     <<"n", "a", "r", "r", "a", "t", "i", "v", "e">>}

\* the view answered 200
AnsweredOK == Answered /\ responses[1].status_code = 200

\* C28: in every 200 response the keys of data.results are among summary,
\* educational, balanced, qa_generation, narrative: content the normalizer
\* stored under a fallback key is absent from the response body.
C28_OnlyDeclaredKeys ==
    AnsweredOK =>
        /\ DOMAIN responses[1].data.data.results \subseteq DeclaredKeys
        /\ DOMAIN responses[1].data.data.results =
               DOMAIN outcome[1].value.results \cap DeclaredKeys
        /\ \A k \in DOMAIN outcome[1].value.results \ DeclaredKeys :
               k \notin DOMAIN responses[1].data.data.results

\* the normalizer stored a file under custom_style, and the 200 response
\* has no such key
C28_Witness ==
    /\ AnsweredOK
    /\ <<"c", "u", "s", "t", "o", "m", "_", "s", "t", "y", "l", "e">>
           \in DOMAIN outcome[1].value.results
    /\ <<"c", "u", "s", "t", "o", "m", "_", "s", "t", "y", "l", "e">>
           \notin DOMAIN responses[1].data.data.results

\* the positions of the handler, in the order it goes through them
HandlerPositions ==
    <<"post", "init_service", "process_video", "validate_styles", "mktemp",
      "call_api", "parse", "exit_with", "respond", "done">>

\* C29: every POST handled by the view ends in exactly one response whose
\* HTTP status is one of 200, 400, 422, 500, 502, and the body's status field
\* is "success" if and only if the HTTP status is 200 (otherwise "error"); no
\* exception escapes the handler, including a failure while constructing the
\* service: there is no response before the end, one at the end, and every
\* exception of the service is answered.
C29_OneResponse ==
    /\ pc \in Range(HandlerPositions)
    /\ pc # "done" => responses = <<>> /\ (outcome = None \/ outcome[1].type = "return")
    /\ pc = "done" =>
           /\ Len(responses) = 1
           /\ responses[1].status_code \in {200, 400, 422, 500, 502}
           /\ "status" \in DOMAIN responses[1].data
           /\ responses[1].data.status \in
                  {<<"s", "u", "c", "c", "e", "s", "s">>, <<"e", "r", "r", "o", "r">>}
           /\ responses[1].data.status = <<"s", "u", "c", "c", "e", "s", "s">>
                  <=> responses[1].status_code = 200
    /\ (outcome # None /\ outcome[1].type = "raise") =>
           /\ pc = "done"
           /\ Len(responses) = 1
           /\ responses[1].status_code # 200
    /\ raised_inside # None => pc = "done" /\ Len(responses) = 1

\* the constructor of the service failed on a missing setting, and the view
\* answered 500 with status "error"
C29_Witness ==
    /\ pc = "done"
    /\ raised_inside # None
    /\ raised_inside[1].where = "__init__"
    /\ raised_inside[1].exc.kind = "AttributeError"
    /\ Len(responses) = 1
    /\ responses[1].status_code = 500
    /\ responses[1].data.status = <<"e", "r", "r", "o", "r">>

\* process_video has ended
ProcessVideoEnded == pc \in {"respond", "done"}

\* C30: process_video is total over its outcomes: whatever the external
\* service returns or raises, the call either returns a complete result
\* record (video_url, video_title, processed_at, results, metadata) or raises
\* one of the four categorized errors; it never returns an empty value and
\* never lets an uncategorized exception escape.
C30_ProcessVideoTotal ==
    /\ ProcessVideoEnded => outcome # None
    /\ outcome # None =>
           /\ ProcessVideoEnded
           /\ \/ /\ outcome[1].type = "return"
                 /\ DOMAIN outcome[1].value =
                        {"video_url", "video_title", "processed_at", "results", "metadata"}
                 /\ DOMAIN outcome[1].value.metadata =
                        {"processing_time", "language", "styles_processed"}
                 /\ raised_inside = None
              \/ /\ outcome[1].type = "raise"
                 /\ outcome[1].exc.kind \in
                        {"VideoValidationError", "ExternalServiceError",
                         "ProcessingTimeoutError", "ConfigurationError"}
                 /\ raised_inside # None

\* an output file that is not UTF-8 made read_text raise inside the call,
\* and process_video raised an ExternalService error
C30_Witness ==
    /\ ProcessVideoEnded
    /\ raised_inside # None
    /\ raised_inside[1].exc.kind = "UnicodeDecodeError"
    /\ outcome[1].type = "raise"
    /\ outcome[1].exc.kind = "ExternalServiceError"

=============================================================================
